---- MODULE Spec2Model ----
(***************************************************************************)
(* A model of the documentation pipeline of spark-mcp:                     *)
(*   - split_if_large / write_json          (src/docs/api/build_split.py)  *)
(*   - html_to_blocks, extract_sections_from_html, _slugify                *)
(*                                        (src/docs/api/split_api_docs.py) *)
(* Each component has its own specification (SplitSpec, BlocksSpec,        *)
(* SectionsSpec); the variable mode says which component a behaviour runs. *)
(***************************************************************************)
EXTENDS Integers, Sequences, FiniteSets, TLC

VARIABLES
    mode,        \* "split" | "blocks" | "sections": the component being run
    \* ---- split_if_large -------------------------------------------------
    base_obj,    \* the document passed to split_if_large
    pc,          \* position inside split_if_large
    chunk,       \* the part being accumulated by the greedy scan
    parts,       \* the closed parts (list of endpoint lists)
    i,           \* index of the next endpoint of the scan
    filenames,   \* names of the part files created so far
    k,           \* index of the create / update loops
    disk,        \* file name -> serialized text (<<>> when the file is absent)
    ret,         \* the value returned by split_if_large
    round,       \* 1: first split, 2: the re-split of the reassembled parts
    firstInput,  \* the endpoint list passed to the first split
    firstSlices, \* the endpoint slices of the part files after the first split
    \* ---- html_to_blocks -------------------------------------------------
    fragment,    \* the top-level nodes of the parsed fragment
    pos,         \* index of the next top-level node
    blocks,      \* the blocks pushed so far
    order,       \* the running order counter of push_block
    \* ---- extract_sections_from_html --------------------------------------
    root,        \* the children of the document root
    h1_tags,     \* the h1 elements found by find_all, in document order
    sections,    \* the sections appended so far
    idx,         \* index of the next h1 of the main loop
    spc,         \* position inside extract_sections_from_html
    \* ---- _slugify -------------------------------------------------------
    slug_arg,    \* the string passed to _slugify
    slug_ret,    \* the string it returned
    slug_done,   \* whether it has returned
    \* ---- build_split.main -----------------------------------------------
    collection,  \* the items of the API v2 node and of the Forms node
    bpc,         \* position inside main
    bidx,        \* index of the next item of the loop being run
    out,         \* file under OUT_ROOT -> text (<<>> when the file is absent)
    all_files,   \* the paths gathered by main
    writers,     \* file -> the input items it was written for, in order
    exit_msg,    \* the SystemExit raised by validate_outputs, if any
    printed      \* whether main has printed its summary

splitVars == <<base_obj, pc, chunk, parts, i, filenames, k, disk, ret, round,
               firstInput, firstSlices>>
blockVars == <<fragment, pos, blocks, order>>
sectionVars == <<root, h1_tags, sections, idx, spc>>
slugVars == <<slug_arg, slug_ret, slug_done>>
buildVars == <<collection, bpc, bidx, out, all_files, writers, exit_msg, printed>>
nonSplitVars == <<blockVars, sectionVars, slugVars, buildVars>>
nonBlockVars == <<splitVars, sectionVars, slugVars, buildVars>>
nonSectionVars == <<splitVars, blockVars, slugVars, buildVars>>
nonSlugVars == <<splitVars, blockVars, sectionVars, buildVars>>
vars == <<mode, splitVars, blockVars, sectionVars, slugVars, buildVars>>

(***************************************************************************)
(* Generic helpers                                                         *)
(***************************************************************************)
RECURSIVE SumSeq(_)
SumSeq(s) == IF s = <<>> THEN 0 ELSE Head(s) + SumSeq(Tail(s))

RECURSIVE Flatten(_)
Flatten(ss) == IF ss = <<>> THEN <<>> ELSE Head(ss) \o Flatten(Tail(ss))

\* all sequences over S of length at most n
SeqsUpTo(S, n) == UNION {[1..m -> S] : m \in 0..n}

(***************************************************************************)
(* build_split.py: the serialized text of a document                       *)
(*                                                                         *)
(* json.dumps(obj, ensure_ascii=False, indent=2) is modelled as a sequence *)
(* of segments.  A segment is either one character of a string value       *)
(* ("ch") or a run of structural bytes that holds no '<' and no '>'.       *)
(* The document has the shape built by build_resources:                    *)
(*   {title, category, resource, endpoints?, parts?}                       *)
(* and an endpoint is {id, name, method, path, ..., notes}: body is the    *)
(* number of bytes from the closing quote of its name to the opening quote *)
(* of its last value, notes, the method and the path among them.  The      *)
(* characters '<' and '>' occur only in the title, the names and the notes.*)
(***************************************************************************)
KB_LIMIT == 120 * 1024

MaxEndpoints == 3

\* bytes of the structural segments under indent=2
HeadBytes == 14      \* {\n  "title": "
FieldsBytes == 46    \* ",\n  "category": "API v2",\n  "resource": "res"
EpKeyBytes == 17     \* ,\n  "endpoints":_
EmptyBytes == 2      \* []
OpenBytes == 2       \* [\n
EpIndent == 4        \* the indentation of a list element
EpHeadBytes == 32    \* {\n      "id": 1,\n      "name": "
EpTailBytes == 7     \* "\n    }
SepBytes == 2        \* ,\n
CloseBytes == 4      \* \n  ]
PartsKeyBytes == 13  \* ,\n  "parts":_
EndBytes == 2        \* \n}
StemLen == 3         \* len(base_path.stem) of resources/res.json

Seg(kind, c, id, body, names) ==
    [k |-> kind, c |-> c, id |-> id, body |-> body, names |-> names]

Struct(kind) == Seg(kind, "", 0, 0, <<>>)

Chars(s) == [n \in 1..Len(s) |-> Seg("ch", s[n], 0, 0, <<>>)]

\* f"{base_path.stem}.part{idx}.json" is file idx; base_path.name is file 0
BaseName == 0

PartName(n) == n

DigitsLen(n) == IF n < 10 THEN 1 ELSE 2

NameLen(n) == IF n = BaseName THEN StemLen + 5
              ELSE StemLen + 5 + DigitsLen(n) + 5

\* the bytes of a list of strings as json.dumps lays it out at depth 1
NamesBytes(names) ==
    IF names = <<>> THEN EmptyBytes
    ELSE OpenBytes
         + SumSeq([n \in 1..Len(names) |-> EpIndent + 2 + NameLen(names[n])])
         + SepBytes * (Len(names) - 1) + CloseBytes

\* the segment of an endpoint from its opening brace to the opening quote
\* of its name
EpNameSeg(ep) == Seg("epname", "", ep.id, 0, <<>>)

\* the segment of an endpoint from the closing quote of its name to the
\* opening quote of its notes; it holds the method and the path among its
\* bytes
EpSeg(ep) ==
    [k |-> "ep", c |-> "", id |-> ep.id, body |-> ep.body, names |-> <<>>,
     method |-> ep.method, path |-> ep.path]

\* an endpoint object; one that holds nothing after its name (hasRest false)
\* ends after the name
SerializeEp(ep) ==
    <<EpNameSeg(ep)>> \o Chars(ep.name)
    \o (IF ep.hasRest THEN <<EpSeg(ep)>> \o Chars(ep.notes) ELSE <<>>)
    \o <<Struct("eptail")>>

RECURSIVE SerializeEps(_)
SerializeEps(eps) ==
    IF Len(eps) = 1 THEN SerializeEp(eps[1])
    ELSE SerializeEp(Head(eps)) \o <<Struct("sep")>> \o SerializeEps(Tail(eps))

\* json.dumps(obj, ensure_ascii=False, indent=2)
Serialize(obj) ==
    <<Struct("head")>> \o Chars(obj.title) \o <<Struct("fields")>>
    \o (IF ~obj.hasEndpoints THEN <<>>
        ELSE IF obj.endpoints = <<>> THEN <<Struct("epkey"), Struct("empty")>>
        ELSE <<Struct("epkey"), Struct("open")>> \o SerializeEps(obj.endpoints)
             \o <<Struct("close")>>)
    \o (IF obj.hasParts THEN <<Seg("parts", "", 0, 0, obj.parts)>> ELSE <<>>)
    \o <<Struct("end")>>

SegBytes(s) ==
    CASE s.k = "ch" -> 1
      [] s.k = "head" -> HeadBytes
      [] s.k = "fields" -> FieldsBytes
      [] s.k = "epkey" -> EpKeyBytes
      [] s.k = "empty" -> EmptyBytes
      [] s.k = "open" -> OpenBytes
      [] s.k = "epname" -> EpIndent + EpHeadBytes
      [] s.k = "ep" -> s.body
      [] s.k = "eptail" -> EpTailBytes
      [] s.k = "sep" -> SepBytes
      [] s.k = "close" -> CloseBytes
      [] s.k = "parts" -> PartsKeyBytes + NamesBytes(s.names)
      [] s.k = "end" -> EndBytes

\* len(text.encode("utf-8"))
Bytes(text) == SumSeq([n \in 1..Len(text) |-> SegBytes(text[n])])

(***************************************************************************)
(* write_json and json.loads                                               *)
(***************************************************************************)
IsLt(s) == s.k = "ch" /\ s.c = "<"

IsGt(s) == s.k = "ch" /\ s.c = ">"

\* index of the first '>' at or after position from, 0 when there is none
FirstGt(text, from) ==
    IF \E j \in from..Len(text) : IsGt(text[j])
    THEN CHOOSE j \in from..Len(text) :
             IsGt(text[j]) /\ \A m \in from..(j - 1) : ~IsGt(text[m])
    ELSE 0

\* re.sub(r"<[^>]+>", "", data) from position n on: the leftmost match starts
\* at a '<' that is followed by at least one non-'>' character and then a '>'
RECURSIVE StripFrom(_, _)
StripFrom(text, n) ==
    IF n > Len(text) THEN <<>>
    ELSE IF IsLt(text[n]) /\ FirstGt(text, n + 1) > n + 1
         THEN StripFrom(text, FirstGt(text, n + 1) + 1)
         ELSE <<text[n]>> \o StripFrom(text, n + 1)

StripTags(text) == StripFrom(text, 1)

\* write_json(path, obj): the text that path.write_text receives
WriteJson(obj) == StripTags(Serialize(obj))

Kinds(text) == [n \in 1..Len(text) |-> text[n].k]

Structure(text) == SelectSeq(Kinds(text), LAMBDA kd : kd # "ch")

\* the positions where an endpoint object opens
EpIndices(text) == SelectSeq([n \in 1..Len(text) |-> n], LAMBDA n : text[n].k = "epname")

RECURSIVE EpStructure(_)
EpStructure(n) ==
    IF n = 1 THEN <<"epname", "eptail">>
    ELSE <<"epname", "eptail", "sep">> \o EpStructure(n - 1)

\* the structural segments of a well-formed document text
DocStructure(hasEps, n, hasParts) ==
    <<"head", "fields">>
    \o (IF ~hasEps THEN <<>>
        ELSE IF n = 0 THEN <<"epkey", "empty">>
        ELSE <<"epkey", "open">> \o EpStructure(n) \o <<"close">>)
    \o (IF hasParts THEN <<"parts">> ELSE <<>>)
    \o <<"end">>

HasKind(text, kd) == \E n \in 1..Len(text) : text[n].k = kd

\* json.loads(text) does not raise JSONDecodeError: the text is a document
\* whose endpoint objects hold, after the name, any number of runs of the
\* keys method ... notes (a key may occur twice in a JSON object)
ValidJson(text) ==
    /\ text # <<>>
    /\ SelectSeq(Structure(text), LAMBDA kd : kd # "ep")
           = DocStructure(HasKind(text, "epkey"),
                          Len(EpIndices(text)),
                          HasKind(text, "parts"))
    /\ \A n \in 1..Len(Structure(text)) :
           Structure(text)[n] = "ep" =>
               n > 1 /\ Structure(text)[n - 1] \in {"epname", "ep"}

\* the characters of the string value that starts after segment n
RECURSIVE StringAt(_, _)
StringAt(text, n) ==
    IF n > Len(text) \/ text[n].k # "ch" THEN <<>>
    ELSE <<text[n].c>> \o StringAt(text, n + 1)

\* the endpoint object that opens at position e: of a key that occurs twice
\* json.loads keeps the last value, so method, path and notes are those of
\* the last run of keys before the closing brace
ParseEp(text, e) ==
    LET tails == {j \in e..Len(text) : text[j].k = "eptail"}
        close == IF tails = {} THEN Len(text)
                 ELSE CHOOSE j \in tails : \A m \in tails : j <= m
        runs == {j \in e..close : text[j].k = "ep"}
    IN  IF runs = {}
        THEN [id |-> text[e].id, name |-> StringAt(text, e + 1), hasRest |-> FALSE,
              body |-> 0, method |-> "", path |-> "", notes |-> <<>>]
        ELSE LET last == CHOOSE j \in runs : \A m \in runs : j >= m
             IN  [id |-> text[e].id, name |-> StringAt(text, e + 1), hasRest |-> TRUE,
                  body |-> text[last].body, method |-> text[last].method,
                  path |-> text[last].path, notes |-> StringAt(text, last + 1)]

\* json.loads(text), for a text that is valid JSON
Parse(text) ==
    LET eps == EpIndices(text)
        pidx == SelectSeq([n \in 1..Len(text) |-> n], LAMBDA n : text[n].k = "parts")
    IN  [title |-> StringAt(text, 2),
         hasEndpoints |-> HasKind(text, "epkey"),
         endpoints |-> [n \in 1..Len(eps) |-> ParseEp(text, eps[n])],
         hasParts |-> pidx # <<>>,
         parts |-> IF pidx = <<>> THEN <<>> ELSE text[pidx[1]].names]

(***************************************************************************)
(* split_if_large                                                          *)
(***************************************************************************)
\* the body size with which two endpoints with one-character names and
\* notes, in a document with a one-character title, measure exactly KB_LIMIT
BodyHalf ==
    (KB_LIMIT - (HeadBytes + 1 + FieldsBytes + EpKeyBytes + OpenBytes
                 + 2 * (EpIndent + EpHeadBytes + 1 + 1 + EpTailBytes)
                 + SepBytes + CloseBytes + EndBytes)) \div 2

\* an endpoint as build_resources appends it
Endpoint(id, name, body, notes) ==
    [id |-> id, name |-> name, hasRest |-> TRUE, body |-> body,
     method |-> "GET", path |-> "/x", notes |-> notes]

\* the notes of an endpoint: plain, a whole tag, a lone '<', a lone '>'
NotesChoices == {<<"x">>, <<"<", "b", ">">>, <<"x", "<">>, <<">", "x">>}

\* the endpoints an input document may hold at position n (its id)
EndpointChoices(n) ==
    {Endpoint(n, <<"n">>, b, t) : b \in {100, BodyHalf}, t \in NotesChoices}
    \cup {Endpoint(n, <<"n">>, KB_LIMIT, <<"x">>)}

TitleChoices == {<<"x">>, <<"x", "<">>}

EndpointLists ==
    UNION {{eps \in [1..n -> UNION {EndpointChoices(m) : m \in 1..n}] :
                \A m \in 1..n : eps[m].id = m} : n \in 0..MaxEndpoints}

InputDocs ==
    {[title |-> t, hasEndpoints |-> TRUE, endpoints |-> eps,
      hasParts |-> FALSE, parts |-> <<>>] : t \in TitleChoices, eps \in EndpointLists}
    \cup {[title |-> t, hasEndpoints |-> FALSE, endpoints |-> <<>>,
           hasParts |-> FALSE, parts |-> <<>>] : t \in TitleChoices}

FileNames == 0..MaxEndpoints

\* base_obj.get("endpoints") or []
EndpointsOf(obj) == IF obj.hasEndpoints THEN obj.endpoints ELSE <<>>

\* {**base_obj, "endpoints": eps}
WithEndpoints(obj, eps) == [obj EXCEPT !.hasEndpoints = TRUE, !.endpoints = eps]

\* size_of_eps(eps)
size_of_eps(eps) == Bytes(Serialize(WithEndpoints(base_obj, eps)))

\* a scan that closes the chunk as soon as the budget is reached
ClosesChunkEarly(est, ch) == est >= KB_LIMIT /\ ch # <<>>

\* line 277: est > KB_LIMIT and chunk
ClosesChunk(est, ch) == est > KB_LIMIT /\ ch # <<>>

\* obj = {**base_obj, "endpoints": eps}; obj["parts"] = []
NewPartObj(eps) == [WithEndpoints(base_obj, eps) EXCEPT !.hasParts = TRUE, !.parts = <<>>]

\* an update that leaves the last name out of the list
WithPartsShort(obj, names) ==
    [obj EXCEPT !.hasParts = TRUE, !.parts = SubSeq(names, 1, Len(names) - 1)]

\* line 296: obj["parts"] = filenames
WithParts(obj, names) == [obj EXCEPT !.hasParts = TRUE, !.parts = names]

IdleBlocks == fragment = <<>> /\ pos = 0 /\ blocks = <<>> /\ order = 0

IdleSections == root = <<>> /\ h1_tags = <<>> /\ sections = <<>> /\ idx = 0 /\ spc = "idle"

IdleBuild ==
    /\ collection = <<>> /\ bpc = "idle" /\ bidx = 0 /\ out = <<>>
    /\ all_files = <<>> /\ writers = <<>> /\ exit_msg = <<>> /\ printed = FALSE

IdleSlug == slug_arg = <<>> /\ slug_ret = <<>> /\ slug_done = FALSE

IdleSplit ==
    /\ base_obj = [title |-> <<>>, hasEndpoints |-> FALSE, endpoints |-> <<>>,
                   hasParts |-> FALSE, parts |-> <<>>]
    /\ pc = "idle" /\ chunk = <<>> /\ parts = <<>> /\ i = 0 /\ filenames = <<>>
    /\ k = 0 /\ disk = [f \in FileNames |-> <<>>] /\ ret = <<>> /\ round = 0
    /\ firstInput = <<>> /\ firstSlices = <<>>

SplitInit ==
    /\ mode = "split"
    /\ base_obj \in InputDocs
    /\ pc = "call"
    /\ chunk = <<>> /\ parts = <<>> /\ i = 0 /\ filenames = <<>> /\ k = 0
    /\ disk = [f \in FileNames |-> <<>>]
    /\ ret = <<>>
    /\ round = 1
    /\ firstInput = EndpointsOf(base_obj)
    /\ firstSlices = <<>>
    /\ IdleBlocks /\ IdleSections /\ IdleSlug /\ IdleBuild

\* lines 260-263: no endpoints, the document is written as it is
ReturnNoEndpoints ==
    /\ mode = "split" /\ pc = "call"
    /\ EndpointsOf(base_obj) = <<>>
    /\ disk' = [disk EXCEPT ![BaseName] = WriteJson(base_obj)]
    /\ ret' = <<BaseName>>
    /\ pc' = "done"
    /\ UNCHANGED <<mode, base_obj, chunk, parts, i, filenames, k, round,
                   firstInput, firstSlices, nonSplitVars>>

\* lines 265-268: the whole document is within the budget
ReturnFits ==
    /\ mode = "split" /\ pc = "call"
    /\ EndpointsOf(base_obj) # <<>>
    /\ Bytes(Serialize(base_obj)) <= KB_LIMIT
    /\ disk' = [disk EXCEPT ![BaseName] = WriteJson(base_obj)]
    /\ ret' = <<BaseName>>
    /\ pc' = "done"
    /\ UNCHANGED <<mode, base_obj, chunk, parts, i, filenames, k, round,
                   firstInput, firstSlices, nonSplitVars>>

\* lines 270-272: the split path starts
BeginSplit ==
    /\ mode = "split" /\ pc = "call"
    /\ EndpointsOf(base_obj) # <<>>
    /\ Bytes(Serialize(base_obj)) > KB_LIMIT
    /\ parts' = <<>> /\ chunk' = <<>> /\ i' = 1
    /\ pc' = "scan"
    /\ UNCHANGED <<mode, base_obj, filenames, k, disk, ret, round,
                   firstInput, firstSlices, nonSplitVars>>

\* lines 275-281: one iteration of the greedy scan
ScanStep ==
    /\ mode = "split" /\ pc = "scan"
    /\ i <= Len(base_obj.endpoints)
    /\ LET ep == base_obj.endpoints[i]
           est == size_of_eps(Append(chunk, ep))
       IN  IF ClosesChunk(est, chunk)
           THEN parts' = Append(parts, chunk) /\ chunk' = <<ep>>
           ELSE parts' = parts /\ chunk' = Append(chunk, ep)
    /\ i' = i + 1
    /\ UNCHANGED <<mode, base_obj, pc, filenames, k, disk, ret, round,
                   firstInput, firstSlices, nonSplitVars>>

\* lines 282-284: the last chunk is closed
ScanEnd ==
    /\ mode = "split" /\ pc = "scan"
    /\ i > Len(base_obj.endpoints)
    /\ parts' = IF chunk # <<>> THEN Append(parts, chunk) ELSE parts
    /\ filenames' = <<>> /\ k' = 1
    /\ pc' = "create"
    /\ UNCHANGED <<mode, base_obj, chunk, i, disk, ret, round,
                   firstInput, firstSlices, nonSplitVars>>

\* lines 286-291: part file k is created with an empty parts list
CreatePart ==
    /\ mode = "split" /\ pc = "create"
    /\ k <= Len(parts)
    /\ disk' = [disk EXCEPT ![PartName(k)] = WriteJson(NewPartObj(parts[k]))]
    /\ filenames' = Append(filenames, PartName(k))
    /\ k' = IF k = Len(parts) THEN 1 ELSE k + 1
    /\ pc' = IF k = Len(parts) THEN "update" ELSE "create"
    /\ UNCHANGED <<mode, base_obj, chunk, parts, i, ret, round,
                   firstInput, firstSlices, nonSplitVars>>

\* lines 293-298: part file k is read back and rewritten with the parts list
UpdatePart ==
    /\ mode = "split" /\ pc = "update"
    /\ k <= Len(filenames)
    /\ ValidJson(disk[filenames[k]])
    /\ disk' = [disk EXCEPT ![filenames[k]] =
                   WriteJson(WithParts(Parse(disk[filenames[k]]), filenames))]
    /\ k' = k + 1
    /\ pc' = IF k = Len(filenames) THEN "done" ELSE "update"
    /\ ret' = IF k = Len(filenames) THEN filenames ELSE ret
    /\ UNCHANGED <<mode, base_obj, chunk, parts, i, filenames, round,
                   firstInput, firstSlices, nonSplitVars>>

\* line 295: json.loads raises on a part file that is not valid JSON
UpdateRaises ==
    /\ mode = "split" /\ pc = "update"
    /\ k <= Len(filenames)
    /\ ~ValidJson(disk[filenames[k]])
    /\ pc' = "raised"
    /\ UNCHANGED <<mode, base_obj, chunk, parts, i, filenames, k, disk, ret, round,
                   firstInput, firstSlices, nonSplitVars>>

\* the endpoint slices held by the returned files, in the order of ret
SlicesOnDisk == [n \in 1..Len(ret) |-> Parse(disk[ret[n]]).endpoints]

\* the returned files are read back, their endpoint slices are concatenated
\* into one endpoint list and the document is handed to split_if_large again
Reassemble ==
    /\ mode = "split" /\ pc = "done" /\ round = 1
    /\ \A n \in 1..Len(ret) : ValidJson(disk[ret[n]])
    /\ firstSlices' = SlicesOnDisk
    /\ base_obj' = [Parse(disk[ret[1]]) EXCEPT
                       !.endpoints = Flatten(SlicesOnDisk),
                       !.hasParts = FALSE, !.parts = <<>>]
    /\ round' = 2
    /\ pc' = "call"
    /\ chunk' = <<>> /\ parts' = <<>> /\ i' = 0 /\ filenames' = <<>> /\ k' = 0
    /\ ret' = <<>>
    /\ UNCHANGED <<mode, disk, firstInput, nonSplitVars>>

SplitNext ==
    \/ ReturnNoEndpoints
    \/ ReturnFits
    \/ BeginSplit
    \/ ScanStep
    \/ ScanEnd
    \/ CreatePart
    \/ UpdatePart
    \/ UpdateRaises
    \/ Reassemble

SplitSpec == SplitInit /\ [][SplitNext]_vars

(***************************************************************************)
(* Properties of split_if_large                                            *)
(***************************************************************************)
IdsOf(eps) == [n \in 1..Len(eps) |-> eps[n].id]

Returned == mode = "split" /\ pc = "done"

\* split_if_large returned from the split path (part files, not base_path)
TookSplitPath == Returned /\ ret # <<BaseName>>

\* the endpoint alone, wrapped in the document shape, is within the budget
FitsAlone(ep) == size_of_eps(<<ep>>) <= KB_LIMIT

\* C3: when a document whose endpoints each fit the budget on their own is
\* split, every part file as finally written (with its completed parts list)
\* has at most KB_LIMIT bytes.
C3_WrittenPartsWithinBudget ==
    (TookSplitPath /\ \A n \in 1..Len(base_obj.endpoints) : FitsAlone(base_obj.endpoints[n]))
        => \A n \in 1..Len(ret) : Bytes(disk[ret[n]]) <= KB_LIMIT

\* C4: when a document is split, the endpoint slices of the part files,
\* concatenated in part order, are the original endpoint list: every endpoint
\* exactly once and in its original order.
C4_SlicesConcatenateToInput ==
    TookSplitPath => IdsOf(Flatten(SlicesOnDisk)) = IdsOf(base_obj.endpoints)

\* C5: after a return from the split path every part file carries the same
\* parts list, which is the complete ordered list of the part file names (its
\* own included) and equals the returned value.
C5_SamePartsListEverywhere ==
    TookSplitPath =>
        /\ ret = [n \in 1..Len(parts) |-> PartName(n)]
        /\ \A n \in 1..Len(ret) :
               /\ ValidJson(disk[ret[n]])
               /\ Parse(disk[ret[n]]).hasParts
               /\ Parse(disk[ret[n]]).parts = ret
               /\ Parse(disk[ret[n]]).parts[n] = ret[n]

C5_Witness ==
    /\ TookSplitPath /\ Len(ret) >= 2
    /\ Parse(disk[ret[2]]).parts = ret

\* C6: a document that is within the budget as a whole, or has no endpoints,
\* is written once, at base_path, unchanged and without a parts field; the
\* single name is returned and no part file is written.
C6_SmallDocumentWrittenUnchanged ==
    (Returned /\ round = 1
       /\ (EndpointsOf(base_obj) = <<>> \/ Bytes(Serialize(base_obj)) <= KB_LIMIT))
        => /\ ret = <<BaseName>>
           /\ ValidJson(disk[BaseName])
           /\ Parse(disk[BaseName]) = base_obj
           /\ ~Parse(disk[BaseName]).hasParts
           /\ \A f \in FileNames \ {BaseName} : disk[f] = <<>>

\* C7: an endpoint that alone exceeds the budget is the sole endpoint of its
\* own part, every part over the budget is a singleton, and a document of one
\* such endpoint yields exactly one part holding only that endpoint.
C7_OversizedEndpointIsSingletonPart ==
    (Returned /\ round = 1) =>
        /\ \A m \in 1..Len(firstInput) :
               ~FitsAlone(firstInput[m]) =>
                   \E n \in 1..Len(ret) : IdsOf(SlicesOnDisk[n]) = <<m>>
        /\ \A n \in 1..Len(ret) :
               Bytes(disk[ret[n]]) > KB_LIMIT => Len(SlicesOnDisk[n]) = 1
        /\ (Len(firstInput) = 1 /\ ~FitsAlone(firstInput[1])) =>
               (Len(ret) = 1 /\ IdsOf(SlicesOnDisk[1]) = <<1>>)

\* C8: splitting again the document reassembled from the emitted parts gives
\* the same slices in the same parts.
C8_ResplitSameBoundaries ==
    (Returned /\ round = 2) =>
        [n \in 1..Len(ret) |-> IdsOf(SlicesOnDisk[n])]
            = [n \in 1..Len(firstSlices) |-> IdsOf(firstSlices[n])]

\* the endpoints that a grouping g sends to part m, in their original order
GroupOf(eps, g, m) == SelectSeq(eps, LAMBDA ep : g[ep.id] = m)

\* every part of the grouping is within the budget as split_if_large measures
\* it, single endpoints that are over the budget on their own aside
GroupingFits(eps, g, count) ==
    \A m \in 1..count :
        /\ GroupOf(eps, g, m) # <<>>
        /\ \/ size_of_eps(GroupOf(eps, g, m)) <= KB_LIMIT
           \/ Len(GroupOf(eps, g, m)) = 1

\* the grouping cuts the list into consecutive slices, in order
Consecutive(g) == \A a, b \in DOMAIN g : a <= b => g[a] <= g[b]

\* C9 as stated: no partition of the endpoint list into fewer parts keeps
\* every part within the budget.
C9_NoSmallerPartition ==
    (Returned /\ round = 1 /\ firstInput # <<>>) =>
        \A count \in 1..(Len(ret) - 1) :
            \A g \in [1..Len(firstInput) -> 1..count] :
                ~GroupingFits(firstInput, g, count)

\* C9 as amended: no partition of the endpoint list into fewer consecutive
\* slices, in the original order, keeps every slice within the budget.
C9_NoSmallerConsecutivePartition ==
    (Returned /\ round = 1 /\ firstInput # <<>>) =>
        \A count \in 1..(Len(ret) - 1) :
            \A g \in [1..Len(firstInput) -> 1..count] :
                Consecutive(g) => ~GroupingFits(firstInput, g, count)

C9_Witness ==
    /\ TookSplitPath /\ round = 1 /\ Len(ret) = 2 /\ Len(firstInput) = 3
    /\ \A n \in 1..3 : FitsAlone(firstInput[n])

(***************************************************************************)
(* split_api_docs.py: strings are sequences of one-character strings       *)
(***************************************************************************)
\* the characters that \s matches
Whitespace == {" ", "\n", "\t"}

IsSpace(c) == c \in Whitespace

UpperCase == <<"A", "B", "C", "D", "E", "F", "G", "H", "I", "J", "K", "L", "M",
               "N", "O", "P", "Q", "R", "S", "T", "U", "V", "W", "X", "Y", "Z">>

LowerCase == <<"a", "b", "c", "d", "e", "f", "g", "h", "i", "j", "k", "l", "m",
               "n", "o", "p", "q", "r", "s", "t", "u", "v", "w", "x", "y", "z">>

DigitChar == <<"0", "1", "2", "3", "4", "5", "6", "7", "8", "9">>

\* str.lower(), one character
LowerChar(c) ==
    IF \E n \in 1..26 : UpperCase[n] = c
    THEN LowerCase[CHOOSE n \in 1..26 : UpperCase[n] = c]
    ELSE c

\* str.lower()
Lower(s) == [n \in 1..Len(s) |-> LowerChar(s[n])]

RECURSIVE LStrip(_)
LStrip(s) == IF s # <<>> /\ IsSpace(Head(s)) THEN LStrip(Tail(s)) ELSE s

RECURSIVE RStrip(_)
RStrip(s) ==
    IF s # <<>> /\ IsSpace(s[Len(s)]) THEN RStrip(SubSeq(s, 1, Len(s) - 1)) ELSE s

\* str.strip()
StripWs(s) == LStrip(RStrip(s))

\* re.sub(<one or more characters of cls>, rep, s): every maximal run of
\* characters of the set cls becomes rep
RECURSIVE SubRuns(_, _, _)
SubRuns(cls, rep, s) ==
    IF s = <<>> THEN <<>>
    ELSE IF Head(s) \in cls
         THEN IF Len(s) > 1 /\ s[2] \in cls
              THEN SubRuns(cls, rep, Tail(s))
              ELSE rep \o SubRuns(cls, rep, Tail(s))
         ELSE <<Head(s)>> \o SubRuns(cls, rep, Tail(s))

\* str.startswith(prefix)
StartsWith(s, prefix) ==
    Len(s) >= Len(prefix) /\ SubSeq(s, 1, Len(prefix)) = prefix

\* str(n) for a natural number
RECURSIVE DigitsOf(_)
DigitsOf(n) ==
    IF n < 10 THEN <<DigitChar[n + 1]>>
    ELSE DigitsOf(n \div 10) \o <<DigitChar[(n % 10) + 1]>>

\* _collapse_ws(text): re.sub(r"\s+", " ", text.strip())
_collapse_ws(text) == SubRuns(Whitespace, <<" ">>, StripWs(text))

IsSlugChar(c) ==
    \/ \E n \in 1..26 : LowerCase[n] = c
    \/ \E n \in 1..10 : DigitChar[n] = c
    \/ c = "-"

\* _slugify(s), lines 9-16
_slugify(s) ==
    IF s = <<>> THEN <<>>
    ELSE SubRuns({"-"}, <<"-">>,
            SelectSeq(Lower(SubRuns(Whitespace \cup {"/"}, <<"-">>, StripWs(s))),
                      IsSlugChar))

(***************************************************************************)
(* The parsed tree: a text node holds its string, an element its name, one  *)
(* attribute (id of a heading, href of an anchor) and its children.         *)
(***************************************************************************)
TextNode(s) == [name |-> "#text", text |-> s, hasAttr |-> FALSE, attr |-> <<>>, kids |-> <<>>]

Element(name, kids) == [name |-> name, text |-> <<>>, hasAttr |-> FALSE, attr |-> <<>>, kids |-> kids]

ElementWith(name, attr, kids) ==
    [name |-> name, text |-> <<>>, hasAttr |-> TRUE, attr |-> attr, kids |-> kids]

IsString(node) == node.name = "#text"

\* the backquote character (U+0060) that wraps inline code
Backquote == "bq"

\* el.get_text(): the strings below the node, concatenated
RECURSIVE get_text(_)
get_text(node) ==
    IF IsString(node) THEN node.text
    ELSE Flatten([n \in 1..Len(node.kids) |-> get_text(node.kids[n])])

\* el.get_text("", strip=True): the stripped strings below the node, the
\* empty ones left out, concatenated
RECURSIVE get_text_stripped(_)
get_text_stripped(node) ==
    IF IsString(node) THEN StripWs(node.text)
    ELSE Flatten([n \in 1..Len(node.kids) |-> get_text_stripped(node.kids[n])])

\* " ".join(pieces)
RECURSIVE JoinSpace(_)
JoinSpace(pieces) ==
    IF pieces = <<>> THEN <<>>
    ELSE IF Len(pieces) = 1 THEN pieces[1]
    ELSE pieces[1] \o <<" ">> \o JoinSpace(Tail(pieces))

\* _node_to_text(node), lines 21-58
RECURSIVE _node_to_text(_)
_node_to_text(node) ==
    IF IsString(node) THEN _collapse_ws(node.text)
    ELSE IF node.name = "a"
    THEN LET text == _collapse_ws(get_text_stripped(node))
             href == StripWs(node.attr)
         IN  IF href # <<>>
             THEN IF text # <<>> /\ text # href
                  THEN _collapse_ws(text \o <<" ", "(">> \o href \o <<")">>)
                  ELSE href
             ELSE text
    ELSE IF node.name \in {"code", "kbd", "samp"}
    THEN <<Backquote>> \o _collapse_ws(get_text(node)) \o <<Backquote>>
    ELSE IF node.name = "br" THEN <<"\n">>
    ELSE _collapse_ws(JoinSpace([n \in 1..Len(node.kids) |-> _node_to_text(node.kids[n])]))

\* line 72: a run is its text, its link ("" when it has none) and its code flag
Run(text, link, code) == [text |-> text, link |-> link, code |-> code]

\* add_text(text, link, code), lines 69-72: the runs it appends
add_text(text, link, code) ==
    IF text = <<>> THEN <<>> ELSE <<Run(text, link, code)>>

\* an anchor that never falls back to its href for the text
AnchorRunsTextOnly(child) ==
    add_text(_collapse_ws(get_text_stripped(child)), StripWs(child.attr), FALSE)

\* lines 83-86: add_text(text or href, link=href or None)
AnchorRuns(child) ==
    LET text == _collapse_ws(get_text_stripped(child))
        href == StripWs(child.attr)
    IN  add_text(IF text # <<>> THEN text ELSE href, href, FALSE)

\* _inline_runs(node), lines 60-93
RECURSIVE _inline_runs(_)
_inline_runs(node) ==
    Flatten([n \in 1..Len(node.kids) |->
        LET child == node.kids[n]
        IN  IF IsString(child) THEN add_text(_collapse_ws(child.text), <<>>, FALSE)
            ELSE IF child.name = "a"
            THEN AnchorRuns(child)
            ELSE IF child.name \in {"code", "kbd", "samp"}
            THEN add_text(_collapse_ws(get_text(child)), <<>>, TRUE)
            ELSE IF child.name = "br" THEN add_text(<<"\n">>, <<>>, FALSE)
            ELSE _inline_runs(child)])

(***************************************************************************)
(* html_to_blocks                                                          *)
(***************************************************************************)
MaxNodes == 3

\* for s in soup(["script", "style"]): s.decompose()
RECURSIVE Decomposed(_)
Decomposed(nodes) ==
    LET keep == SelectSeq(nodes, LAMBDA nd : nd.name \notin {"script", "style"})
    IN  [n \in 1..Len(keep) |-> [keep[n] EXCEPT !.kids = Decomposed(keep[n].kids)]]

NewBlock(type) ==
    [type |-> type, level |-> 0, text |-> <<>>, slug |-> <<>>, variant |-> "",
     runs |-> <<>>, style |-> "", items |-> <<>>, header |-> <<>>, rows |-> <<>>,
     block_id |-> <<>>, order |-> 0]

\* the characters of the type names that push_block formats into block_id
TypeChars(type) ==
    CASE type = "paragraph" -> <<"p", "a", "r", "a", "g", "r", "a", "p", "h">>
      [] type = "callout" -> <<"c", "a", "l", "l", "o", "u", "t">>
      [] type = "list" -> <<"l", "i", "s", "t">>
      [] type = "code" -> <<"c", "o", "d", "e">>
      [] type = "blockquote" -> <<"b", "l", "o", "c", "k", "q", "u", "o", "t", "e">>
      [] type = "table" -> <<"t", "a", "b", "l", "e">>
      [] type = "separator" -> <<"s", "e", "p", "a", "r", "a", "t", "o", "r">>

\* lines 193-198: f"h{level}-{_slugify(text)}" for a heading, f"{btype}-{order}"
\* for every other block
BlockIdOf(block, ord) ==
    IF block.type = "heading"
    THEN <<"h">> \o DigitsOf(block.level) \o <<"-">> \o _slugify(block.text)
    ELSE TypeChars(block.type) \o <<"-">> \o DigitsOf(ord)

\* lines 199-201: the block as push_block appends it
Pushed(block, ord) == [block EXCEPT !.block_id = BlockIdOf(block, ord), !.order = ord]

\* a push_block that does not advance the counter
NextOrderStuck(ord) == ord

\* line 202: order += 1
NextOrder(ord) == ord + 1

\* int(name[1]) for h2..h6
HeadingLevel(name) ==
    CASE name = "h2" -> 2 [] name = "h3" -> 3 [] name = "h4" -> 4
      [] name = "h5" -> 5 [] name = "h6" -> 6

\* line 216: the callout prefixes with their variants, in the order tested
CalloutPrefixes ==
    << [prefix |-> <<"n", "o", "t", "e", ":">>, variant |-> "note"],
       [prefix |-> <<"n", "o", "t", "e", " ", ":">>, variant |-> "note"],
       [prefix |-> <<"w", "a", "r", "n", "i", "n", "g", ":">>, variant |-> "warning"],
       [prefix |-> <<"t", "i", "p", ":">>, variant |-> "tip"],
       [prefix |-> <<"c", "a", "u", "t", "i", "o", "n", ":">>, variant |-> "caution"] >>

\* the index of the first prefix that the lowered text starts with, 0 if none
MatchedPrefix(text) ==
    LET hits == {n \in 1..Len(CalloutPrefixes) :
                    StartsWith(Lower(text), CalloutPrefixes[n].prefix)}
    IN  IF hits = {} THEN 0 ELSE CHOOSE n \in hits : \A m \in hits : n <= m

\* a removal of the prefix that keeps the whitespace after it
AfterPrefixNoTrim(text, prefix) == SubSeq(text, Len(prefix) + 1, Len(text))

\* lines 221-222: text[len(prefix):].lstrip()
AfterPrefix(text, prefix) == LStrip(SubSeq(text, Len(prefix) + 1, Len(text)))

\* a rewrite of the first run that does not look at its text
StripFirstRunAlways(runs, prefix) ==
    IF runs # <<>>
    THEN [runs EXCEPT ![1].text = AfterPrefix(runs[1].text, prefix)]
    ELSE runs

\* lines 220-221: the first run loses the prefix if its own text starts with it
StripFirstRun(runs, prefix) ==
    IF runs # <<>> /\ StartsWith(Lower(runs[1].text), prefix)
    THEN [runs EXCEPT ![1].text = AfterPrefix(runs[1].text, prefix)]
    ELSE runs

IsList(node) == node.name \in {"ul", "ol"}

\* lines 229 and 255
StyleOf(node) == IF node.name = "ul" THEN "unordered" ELSE "ordered"

\* find_all("li", recursive=False)
DirectLi(node) == SelectSeq(node.kids, LAMBDA nd : nd.name = "li")

\* new_tag("span") filled with the nodes appended to it
Container(kids) == Element("span", kids)

\* lines 265-269: the nodes that the loop over sub_li.children appends to
\* sub_container.  contents is the live child list of sub_li and n the
\* position of the iterator: append moves the node out of sub_li, so the
\* list shrinks under the iterator and the node after a moved one is passed
\* over.
RECURSIVE SubContainerKids(_, _)
SubContainerKids(contents, n) ==
    IF n > Len(contents) THEN <<>>
    ELSE IF IsList(contents[n]) THEN SubContainerKids(contents, n + 1)
    ELSE <<contents[n]>>
         \o SubContainerKids(SubSeq(contents, 1, n - 1)
                             \o SubSeq(contents, n + 1, Len(contents)), n + 1)

\* lines 264-272: a sub-item
SubItem(sub_li) ==
    LET sub_container == Container(SubContainerKids(sub_li.kids, 1))
    IN  [text |-> _node_to_text(sub_container), runs |-> _inline_runs(sub_container)]

\* a nested list that keeps only its first li
ChildBlockFirstOnly(child_list) ==
    [type |-> "list", style |-> StyleOf(child_list),
     items |-> [n \in 1..(IF DirectLi(child_list) = <<>> THEN 0 ELSE 1) |->
                    SubItem(DirectLi(child_list)[n])]]

\* lines 253-273: the block of a nested list (its start attribute left out)
ChildBlock(child_list) ==
    [type |-> "list", style |-> StyleOf(child_list),
     items |-> [n \in 1..Len(DirectLi(child_list)) |-> SubItem(DirectLi(child_list)[n])]]

\* lines 238-274: an item of a top-level list; children is the empty list
\* where the code stores None
Item(li) ==
    LET li_text_nodes == SelectSeq(li.kids, LAMBDA nd : ~IsList(nd))
        children_lists == SelectSeq(li.kids, IsList)
        li_container == Container(li_text_nodes)
    IN  [text |-> _node_to_text(li_container),
         runs |-> _inline_runs(li_container),
         children |-> [n \in 1..Len(children_lists) |-> ChildBlock(children_lists[n])]]

\* the strings below the node, in document order
RECURSIVE AllStrings(_)
AllStrings(node) ==
    IF IsString(node) THEN <<node.text>>
    ELSE Flatten([n \in 1..Len(node.kids) |-> AllStrings(node.kids[n])])

\* "\n".join(pieces)
RECURSIVE JoinNewline(_)
JoinNewline(pieces) ==
    IF pieces = <<>> THEN <<>>
    ELSE IF Len(pieces) = 1 THEN pieces[1]
    ELSE pieces[1] \o <<"\n">> \o JoinNewline(Tail(pieces))

\* str.rstrip("\n")
RECURSIVE RStripNewlines(_)
RStripNewlines(s) ==
    IF s # <<>> /\ s[Len(s)] = "\n" THEN RStripNewlines(SubSeq(s, 1, Len(s) - 1)) ELSE s

\* lines 286-287: el.get_text("\n", strip=False).rstrip("\n")
CodeText(el) == RStripNewlines(JoinNewline(AllStrings(el)))

\* find_all(names) on an element: its descendants with one of the names, in
\* document order
RECURSIVE Descendants(_, _)
Descendants(node, names) ==
    Flatten([n \in 1..Len(node.kids) |->
                (IF node.kids[n].name \in names THEN <<node.kids[n]>> ELSE <<>>)
                \o Descendants(node.kids[n], names)])

TextsOf(nodes) == [n \in 1..Len(nodes) |-> _node_to_text(nodes[n])]

\* lines 295-298: the th texts of el.find("thead"), the first thead below el
TableHeader(el) ==
    LET theads == Descendants(el, {"thead"})
    IN  IF theads = <<>> THEN <<>> ELSE TextsOf(Descendants(theads[1], {"th"}))

\* lines 299-302: one row for every tr below el that has cells below it
TableRows(el) ==
    LET trs == SelectSeq(Descendants(el, {"tr"}),
                         LAMBDA tr : Descendants(tr, {"th", "td"}) # <<>>)
    IN  [n \in 1..Len(trs) |-> TextsOf(Descendants(trs[n], {"th", "td"}))]

\* a paragraph pushed whatever its text
ParagraphBlockAlways(text, runs) ==
    <<[NewBlock("paragraph") EXCEPT !.text = text, !.runs = runs]>>

\* lines 226-227: elif text: push_block({"type": "paragraph", ...})
ParagraphBlock(text, runs) ==
    IF text # <<>>
    THEN <<[NewBlock("paragraph") EXCEPT !.text = text, !.runs = runs]>>
    ELSE <<>>

\* a fallback that turns any other element with text into a paragraph
OtherTagAsParagraph(el) ==
    IF _node_to_text(el) # <<>>
    THEN <<[NewBlock("paragraph") EXCEPT !.text = _node_to_text(el)]>>
    ELSE <<>>

\* line 318: no branch matches, the element is ignored
OtherTag(el) == <<>>

\* handle_element(el), lines 204-318: the blocks it hands to push_block
HandleElement(el) ==
    IF el.name \in {"h2", "h3", "h4", "h5", "h6"}
    THEN <<[NewBlock("heading") EXCEPT !.level = HeadingLevel(el.name),
                                       !.text = _node_to_text(el),
                                       !.slug = _slugify(_node_to_text(el))]>>
    ELSE IF el.name = "p"
    THEN LET text == _node_to_text(el)
             runs == _inline_runs(el)
             hit == MatchedPrefix(text)
         IN  IF hit # 0
             THEN <<[NewBlock("callout") EXCEPT
                        !.variant = CalloutPrefixes[hit].variant,
                        !.text = AfterPrefix(text, CalloutPrefixes[hit].prefix),
                        !.runs = StripFirstRun(runs, CalloutPrefixes[hit].prefix)]>>
             ELSE ParagraphBlock(text, runs)
    ELSE IF el.name \in {"ul", "ol"}
    THEN <<[NewBlock("list") EXCEPT
               !.style = StyleOf(el),
               !.items = [n \in 1..Len(DirectLi(el)) |-> Item(DirectLi(el)[n])]]>>
    ELSE IF el.name = "pre" THEN <<[NewBlock("code") EXCEPT !.text = CodeText(el)]>>
    ELSE IF el.name = "blockquote"
    THEN IF _node_to_text(el) # <<>>
         THEN <<[NewBlock("blockquote") EXCEPT !.text = _node_to_text(el)]>>
         ELSE <<>>
    ELSE IF el.name = "table"
    THEN <<[NewBlock("table") EXCEPT !.header = TableHeader(el), !.rows = TableRows(el)]>>
    ELSE IF el.name = "hr" THEN <<NewBlock("separator")>>
    ELSE OtherTag(el)

TextAB == <<"a", " ", "b">>

TextSlash == <<"A", "/", "b">>

\* the top-level nodes a fragment is built from
NodeChoices ==
    { TextNode(<<"z">>),
      Element("h2", <<TextNode(TextAB)>>),
      Element("h2", <<TextNode(TextSlash)>>),
      Element("h3", <<TextNode(TextAB)>>),
      Element("p", <<TextNode(<<" ">>)>>),
      Element("p", <<TextNode(TextAB)>>),
      Element("p", <<TextNode(<<"T", "i", "p", ":">>)>>),
      Element("blockquote", <<>>),
      Element("blockquote", <<TextNode(TextAB)>>),
      Element("ul", <<>>),
      Element("ol", <<>>),
      Element("pre", <<TextNode(TextAB)>>),
      Element("table", <<>>),
      Element("hr", <<>>),
      Element("div", <<Element("p", <<TextNode(TextAB)>>)>>),
      Element("h1", <<TextNode(TextAB)>>),
      Element("script", <<TextNode(TextAB)>>) }

BlocksInit ==
    /\ mode = "blocks"
    /\ fragment \in SeqsUpTo(NodeChoices, MaxNodes)
    /\ pos = 0
    /\ blocks = <<>>
    /\ order = 1
    /\ IdleSplit /\ IdleSections /\ IdleSlug /\ IdleBuild

\* lines 183-188: the fragment is parsed and its scripts and styles removed
Decompose ==
    /\ mode = "blocks" /\ pos = 0
    /\ fragment' = Decomposed(fragment)
    /\ pos' = 1
    /\ UNCHANGED <<mode, blocks, order, nonBlockVars>>

\* lines 321-324: a stray string at the top level is skipped
SkipString ==
    /\ mode = "blocks" /\ pos >= 1 /\ pos <= Len(fragment)
    /\ IsString(fragment[pos])
    /\ pos' = pos + 1
    /\ UNCHANGED <<mode, fragment, blocks, order, nonBlockVars>>

\* line 325: handle_element(child), with the push_block it may call
HandleChild ==
    /\ mode = "blocks" /\ pos >= 1 /\ pos <= Len(fragment)
    /\ ~IsString(fragment[pos])
    /\ LET new == HandleElement(fragment[pos])
       IN  IF new = <<>>
           THEN UNCHANGED <<blocks, order>>
           ELSE /\ blocks' = Append(blocks, Pushed(new[1], order))
                /\ order' = NextOrder(order)
    /\ pos' = pos + 1
    /\ UNCHANGED <<mode, fragment, nonBlockVars>>

BlocksNext == Decompose \/ SkipString \/ HandleChild

BlocksSpec == BlocksInit /\ [][BlocksNext]_vars

\* html_to_blocks has returned
BlocksReturned == mode = "blocks" /\ pos > Len(fragment)

\* C1: the returned block list has order 1, 2, ..., N in list position order.
C1_OrderIsPosition ==
    BlocksReturned => \A n \in 1..Len(blocks) : blocks[n].order = n

C1_Witness ==
    /\ BlocksReturned /\ Len(blocks) = 2 /\ Len(fragment) = 3
    /\ ~IsString(fragment[2]) /\ HandleElement(fragment[2]) = <<>>
    /\ blocks[2].order = 2

\* C2: within one returned block list the block_id values are pairwise
\* distinct.
C2_BlockIdsDistinct ==
    BlocksReturned =>
        \A n, m \in 1..Len(blocks) : n # m => blocks[n].block_id # blocks[m].block_id

(***************************************************************************)
(* extract_sections_from_html                                              *)
(*                                                                         *)
(* root holds the children of soup.body or soup.  An element of the tree   *)
(* is named by its path: the indices that lead to it from the root.  The   *)
(* html of a section is kept as the list of the elements it is joined      *)
(* from, before str() and "".join turn them into text.                     *)
(***************************************************************************)
MaxRootNodes == 3

RECURSIVE NodeAt(_, _)
NodeAt(nodes, path) ==
    IF Len(path) = 1 THEN nodes[path[1]]
    ELSE NodeAt(nodes[path[1]].kids, Tail(path))

\* the children of the parent of the element at path
RECURSIVE SiblingsAt(_, _)
SiblingsAt(nodes, path) ==
    IF Len(path) = 1 THEN nodes
    ELSE SiblingsAt(nodes[path[1]].kids, Tail(path))

\* find_all(name) below the nodes, as paths in document order; prefix is
\* the path of their parent
RECURSIVE FindAll(_, _, _)
FindAll(nodes, name, prefix) ==
    Flatten([n \in 1..Len(nodes) |->
                (IF nodes[n].name = name THEN <<prefix \o <<n>>>> ELSE <<>>)
                \o FindAll(nodes[n].kids, name, prefix \o <<n>>)])

\* the nodes from position n on, up to the first h1 (not included)
RECURSIVE UntilH1(_, _)
UntilH1(nodes, n) ==
    IF n > Len(nodes) \/ nodes[n].name = "h1" THEN <<>>
    ELSE <<nodes[n]>> \o UntilH1(nodes, n + 1)

Elements(nodes) == SelectSeq(nodes, LAMBDA nd : ~IsString(nd))

\* an introduction gathered from every node before the first h1, strings too
IntroPartsWithStrings(nodes) == UntilH1(nodes, 1)

\* lines 134-141: the elements among root.children before the first h1 child
IntroParts(nodes) == Elements(UntilH1(nodes, 1))

\* lines 154-160: the element siblings after the h1 up to the next h1 sibling
ContentParts(nodes, path) ==
    Elements(UntilH1(SiblingsAt(nodes, path), path[Len(path)] + 1))

\* a title taken without trimming
SectionTitleRaw(h1) == get_text(h1)

\* line 151: h1.get_text().strip()
SectionTitle(h1) == StripWs(get_text(h1))

\* f"section-{idx+1}"
SectionOrdinal(n) == <<"s", "e", "c", "t", "i", "o", "n", "-">> \o DigitsOf(n)

\* a slug that prefers the slugified title to the id attribute
SectionSlugTitleFirst(h1, n) ==
    IF _slugify(get_text(h1)) # <<>> THEN _slugify(get_text(h1))
    ELSE IF h1.hasAttr /\ h1.attr # <<>> THEN h1.attr
    ELSE SectionOrdinal(n)

\* line 150: h1.get("id") or _slugify(h1.get_text()) or f"section-{idx+1}",
\* where n is the 1-based position of the h1 in h1_tags
SectionSlug(h1, n) ==
    IF h1.hasAttr /\ h1.attr # <<>> THEN h1.attr
    ELSE IF _slugify(get_text(h1)) # <<>> THEN _slugify(get_text(h1))
    ELSE <<"s", "e", "c", "t", "i", "o", "n", "-">> \o DigitsOf(n)

IntroductionSection(nodes) ==
    [slug |-> <<"i", "n", "t", "r", "o", "d", "u", "c", "t", "i", "o", "n">>,
     title |-> <<"I", "n", "t", "r", "o", "d", "u", "c", "t", "i", "o", "n">>,
     html |-> IntroParts(nodes)]

H1(s) == Element("h1", <<TextNode(s)>>)

Para == Element("p", <<TextNode(TextAB)>>)

\* the children a document root is built from
RootChoices ==
    { TextNode(<<"\n">>),
      Para,
      H1(<<"A", " ", "b">>),
      ElementWith("h1", <<"x", "1">>, <<TextNode(<<" ", "C", " ">>)>>),
      H1(<<"!">>),
      ElementWith("h1", <<>>, <<TextNode(<<"E">>)>>),
      Element("div", <<H1(<<"D">>), Para>>) }

\* three h1 headings "Intro Stuff", "Pagination", "Filtering", nothing before
ExampleDoc ==
    << H1(<<"I", "n", "t", "r", "o", " ", "S", "t", "u", "f", "f">>),
       Para,
       H1(<<"P", "a", "g", "i", "n", "a", "t", "i", "o", "n">>),
       H1(<<"F", "i", "l", "t", "e", "r", "i", "n", "g">>),
       Para >>

SectionsInit ==
    /\ mode = "sections"
    /\ root \in SeqsUpTo(RootChoices, MaxRootNodes) \cup {ExampleDoc}
    /\ h1_tags = <<>>
    /\ sections = <<>>
    /\ idx = 0
    /\ spc = "start"
    /\ IdleSplit /\ IdleBlocks /\ IdleSlug /\ IdleBuild

\* lines 122-130: h1_tags = root.find_all("h1")
FindH1Tags ==
    /\ mode = "sections" /\ spc = "start"
    /\ h1_tags' = FindAll(root, "h1", <<>>)
    /\ spc' = "intro"
    /\ UNCHANGED <<mode, root, sections, idx, nonSectionVars>>

\* lines 133-147: the implicit Introduction section
EmitIntroduction ==
    /\ mode = "sections" /\ spc = "intro"
    /\ sections' = IF h1_tags # <<>> /\ IntroParts(root) # <<>>
                   THEN Append(sections, IntroductionSection(root))
                   ELSE sections
    /\ idx' = 1
    /\ spc' = "loop"
    /\ UNCHANGED <<mode, root, h1_tags, nonSectionVars>>

\* lines 149-166: the section of the h1 at position idx of h1_tags
EmitSection ==
    /\ mode = "sections" /\ spc = "loop"
    /\ idx <= Len(h1_tags)
    /\ sections' = Append(sections,
                      [slug |-> SectionSlug(NodeAt(root, h1_tags[idx]), idx),
                       title |-> SectionTitle(NodeAt(root, h1_tags[idx])),
                       html |-> ContentParts(root, h1_tags[idx])])
    /\ idx' = idx + 1
    /\ UNCHANGED <<mode, root, h1_tags, spc, nonSectionVars>>

SectionsNext == FindH1Tags \/ EmitIntroduction \/ EmitSection

SectionsSpec == SectionsInit /\ [][SectionsNext]_vars

\* extract_sections_from_html has returned
SectionsReturned == mode = "sections" /\ spc = "loop" /\ idx > Len(h1_tags)

\* the h1 elements of the document, in document order
RECURSIVE H1Elements(_)
H1Elements(nodes) ==
    Flatten([n \in 1..Len(nodes) |->
                (IF nodes[n].name = "h1" THEN <<nodes[n]>> ELSE <<>>)
                \o H1Elements(nodes[n].kids)])

\* the sections that stand for h1 elements: all of them, but for a leading
\* implicit Introduction section
HeadingSections ==
    IF Len(sections) = Len(H1Elements(root)) + 1
       /\ sections[1].slug = IntroductionSection(root).slug
       /\ sections[1].title = IntroductionSection(root).title
    THEN Tail(sections)
    ELSE sections

\* C10: one section per h1 element, in document order, titled with the
\* trimmed text of the h1; no h1, no section; the three headings "Intro
\* Stuff", "Pagination", "Filtering" give exactly the slugs intro-stuff,
\* pagination, filtering.
C10_OneSectionPerH1 ==
    SectionsReturned =>
        /\ Len(HeadingSections) = Len(H1Elements(root))
        /\ \A n \in 1..Len(HeadingSections) :
               HeadingSections[n].title = StripWs(get_text(H1Elements(root)[n]))
        /\ H1Elements(root) = <<>> => sections = <<>>
        /\ root = ExampleDoc =>
               [n \in 1..Len(sections) |-> sections[n].slug]
                   = << <<"i", "n", "t", "r", "o", "-", "s", "t", "u", "f", "f">>,
                        <<"p", "a", "g", "i", "n", "a", "t", "i", "o", "n">>,
                        <<"f", "i", "l", "t", "e", "r", "i", "n", "g">> >>

C10_Witness ==
    /\ SectionsReturned /\ root = ExampleDoc /\ Len(sections) = 3
    /\ sections[1].title = <<"I", "n", "t", "r", "o", " ", "S", "t", "u", "f", "f">>

\* the names of the elements of the document in document order: an element
\* comes before the elements it contains
RECURSIVE ElementNames(_)
ElementNames(nodes) ==
    Flatten([n \in 1..Len(nodes) |->
                IF IsString(nodes[n]) THEN <<>>
                ELSE <<nodes[n].name>> \o ElementNames(nodes[n].kids)])

\* the document has an h1 and an element comes before the first one
ElementBeforeFirstH1(nodes) ==
    LET names == ElementNames(nodes)
    IN  \E n \in 1..Len(names) :
            /\ names[n] = "h1"
            /\ \A m \in 1..(n - 1) : names[m] # "h1"
            /\ n > 1

\* the sections hold one more entry than the document has h1 elements
IntroductionEmitted == Len(sections) = Len(H1Elements(root)) + 1

C12_SlugIdIfPresent ==
    SectionsReturned =>
        \A n \in 1..Len(HeadingSections) :
            LET h1 == H1Elements(root)[n]
            IN  HeadingSections[n].slug =
                    IF h1.hasAttr THEN h1.attr
                    ELSE IF _slugify(SectionTitle(h1)) # <<>>
                         THEN _slugify(SectionTitle(h1))
                         ELSE SectionOrdinal(n)

\* C12 amended: the id attribute decides only if it is present and not
\* empty; an h1 with an empty id falls through to the slugified title and
\* then to section-<k>.
C12_SlugIdIfNonEmpty ==
    SectionsReturned =>
        \A n \in 1..Len(HeadingSections) :
            LET h1 == H1Elements(root)[n]
            IN  HeadingSections[n].slug =
                    IF h1.hasAttr /\ h1.attr # <<>> THEN h1.attr
                    ELSE IF _slugify(SectionTitle(h1)) # <<>>
                         THEN _slugify(SectionTitle(h1))
                         ELSE SectionOrdinal(n)

C12_Witness ==
    /\ SectionsReturned /\ Len(root) = 3
    /\ root[1] = Para /\ root[2].name = "h1" /\ root[2].hasAttr /\ root[2].attr # <<>>
    /\ root[3] = H1(<<"!">>)
    /\ Len(sections) = 3
    /\ sections[2].slug = <<"x", "1">>
    /\ sections[3].slug = <<"s", "e", "c", "t", "i", "o", "n", "-", "2">>

(***************************************************************************)
(* _slugify on its own                                                     *)
(***************************************************************************)
MaxSlugLen == 3

\* the characters the strings passed to _slugify are built from
SlugAlphabet == {"a", "A", "1", " ", "/", "-", "!"}

SlugInit ==
    /\ mode = "slugify"
    /\ slug_arg \in SeqsUpTo(SlugAlphabet, MaxSlugLen)
    /\ slug_ret = <<>>
    /\ slug_done = FALSE
    /\ IdleSplit /\ IdleBlocks /\ IdleSections /\ IdleBuild

\* lines 9-16: the call returns
CallSlugify ==
    /\ mode = "slugify" /\ ~slug_done
    /\ slug_ret' = _slugify(slug_arg)
    /\ slug_done' = TRUE
    /\ UNCHANGED <<mode, slug_arg, nonSlugVars>>

SlugNext == CallSlugify

SlugSpec == SlugInit /\ [][SlugNext]_vars

\* C13: the result of _slugify is lowercase, holds only characters of
\* [a-z0-9-], holds no two consecutive hyphens and has no leading or
\* trailing hyphen.
C13_SlugTrimmedAndClean ==
    slug_done =>
        /\ Lower(slug_ret) = slug_ret
        /\ \A n \in 1..Len(slug_ret) : IsSlugChar(slug_ret[n])
        /\ \A n \in 1..(Len(slug_ret) - 1) : ~(slug_ret[n] = "-" /\ slug_ret[n + 1] = "-")
        /\ slug_ret # <<>> => slug_ret[1] # "-" /\ slug_ret[Len(slug_ret)] # "-"

(***************************************************************************)
(* html_to_blocks on fragments of paragraphs                               *)
(***************************************************************************)
P(kids) == Element("p", kids)

Anchor(href, kids) == ElementWith("a", href, kids)

\* the nodes a fragment of paragraphs is built from
ParagraphChoices ==
    { TextNode(<<"z">>),
      P(<<TextNode(TextAB)>>),
      P(<<TextNode(<<" ">>)>>),
      P(<<TextNode(<<"N", "o", "t", "e", ":", " ", "x">>)>>),
      P(<<TextNode(<<"W", "A", "R", "N", "I", "N", "G", ":", "y">>)>>),
      P(<<TextNode(<<"w", "a", "r", "n", "i", "n", "g", ":", " ">>),
          Anchor(<<"u">>, <<TextNode(<<"x">>)>>)>>),
      P(<<TextNode(<<"W", "a", "r", "n", "i", "n", "g", ":", " ",
                     "w", "a", "r", "n", "i", "n", "g", ":", " ", "h">>)>>),
      P(<<TextNode(<<"n", "o", "t", "e">>), Element("b", <<TextNode(<<":">>)>>)>>),
      P(<<Element("b", <<TextNode(<<"T", "i", "p", ":">>)>>), TextNode(<<" ", "y">>)>>),
      P(<<TextNode(<<"c", "a", "u", "t", "i", "o", "n">>)>>),
      P(<<Anchor(<<"u">>, <<TextNode(<<"C", "a", "u", "t", "i", "o", "n", ":">>)>>)>>),
      P(<<TextNode(<<"x", " ", "t", "i", "p", ":", " ", "y">>)>>) }

ParagraphsInit ==
    /\ mode = "blocks"
    /\ fragment \in SeqsUpTo(ParagraphChoices, MaxNodes)
    /\ pos = 0
    /\ blocks = <<>>
    /\ order = 1
    /\ IdleSplit /\ IdleSections /\ IdleSlug /\ IdleBuild

ParagraphsSpec == ParagraphsInit /\ [][BlocksNext]_vars

\* handle_element is about to run on a p element
HandlingP ==
    /\ mode = "blocks" /\ pos >= 1 /\ pos <= Len(fragment)
    /\ fragment[pos].name = "p"

\* the prefixes that the lowered text starts with
PrefixHits(text) ==
    {n \in 1..Len(CalloutPrefixes) : StartsWith(Lower(text), CalloutPrefixes[n].prefix)}

\* rest is what is left of full once the prefix and the whitespace after it
\* are taken away
IsRemainderOf(rest, full, prefix) ==
    /\ Len(full) >= Len(prefix) + Len(rest)
    /\ Lower(SubSeq(full, 1, Len(prefix))) = prefix
    /\ SubSeq(full, Len(full) - Len(rest) + 1, Len(full)) = rest
    /\ \A n \in (Len(prefix) + 1)..(Len(full) - Len(rest)) : IsSpace(full[n])
    /\ rest # <<>> => ~IsSpace(rest[1])

\* C14: a p becomes a Callout if and only if its lowered plain text starts
\* with one of the prefixes, the first that matches giving the variant; the
\* prefix and the whitespace after it are then removed from the block text,
\* and from the first run's text only if that text starts with the prefix;
\* without a match a non-empty paragraph stays a Paragraph with its text and
\* runs unchanged.
C14_CalloutIffPrefix ==
    [][ HandlingP =>
          LET el == fragment[pos]
              text == _node_to_text(el)
              runs == _inline_runs(el)
              hits == PrefixHits(text)
              pushed == Len(blocks') = Len(blocks) + 1
              new == blocks'[Len(blocks')]
          IN  /\ (pushed /\ new.type = "callout") <=> hits # {}
              /\ hits # {} =>
                    LET first == CHOOSE n \in hits : \A m \in hits : n <= m
                        prefix == CalloutPrefixes[first].prefix
                    IN  /\ new.variant = CalloutPrefixes[first].variant
                        /\ IsRemainderOf(new.text, text, prefix)
                        /\ Len(new.runs) = Len(runs)
                        /\ \A n \in 2..Len(runs) : new.runs[n] = runs[n]
                        /\ runs # <<>> =>
                              /\ new.runs[1].link = runs[1].link
                              /\ new.runs[1].code = runs[1].code
                              /\ IF StartsWith(Lower(runs[1].text), prefix)
                                 THEN IsRemainderOf(new.runs[1].text, runs[1].text, prefix)
                                 ELSE new.runs[1].text = runs[1].text
              /\ (hits = {} /\ text # <<>>) =>
                    /\ pushed /\ new.type = "paragraph"
                    /\ new.text = text /\ new.runs = runs
              /\ (hits = {} /\ text = <<>>) => blocks' = blocks
      ]_vars

C14_Witness ==
    /\ BlocksReturned /\ Len(fragment) = 2 /\ Len(blocks) = 2
    /\ fragment[1] = P(<<TextNode(<<"n", "o", "t", "e">>), Element("b", <<TextNode(<<":">>)>>)>>)
    /\ blocks[1].type = "callout" /\ blocks[1].variant = "note"
    /\ blocks[1].text = <<>> /\ Len(blocks[1].runs) = 2
    /\ blocks[1].runs[1].text = <<"n", "o", "t", "e">>
    /\ fragment[2] = P(<<TextNode(<<"N", "o", "t", "e", ":", " ", "x">>)>>)
    /\ blocks[2].type = "callout" /\ blocks[2].text = <<"x">>
    /\ blocks[2].runs = <<Run(<<"x">>, <<>>, FALSE)>>

WarningPrefix == <<"w", "a", "r", "n", "i", "n", "g", ":">>

\* s holds sub as a run of consecutive characters
Contains(s, sub) ==
    \E n \in 1..(Len(s) - Len(sub) + 1) : SubSeq(s, n, n + Len(sub) - 1) = sub

\* handle_element is about to run on a p whose text starts with warning:
HandlingWarning ==
    HandlingP /\ StartsWith(Lower(_node_to_text(fragment[pos])), WarningPrefix)

\* C15 as stated: a paragraph whose text starts, case-insensitively, with
\* warning: is emitted as a Callout with variant warning whose text no
\* longer contains warning:.
C15_WarningTextWithoutPrefix ==
    [][ HandlingWarning =>
          /\ Len(blocks') = Len(blocks) + 1
          /\ blocks'[Len(blocks')].type = "callout"
          /\ blocks'[Len(blocks')].variant = "warning"
          /\ ~Contains(Lower(blocks'[Len(blocks')].text), WarningPrefix)
      ]_vars

\* C15 amended: the Callout's text is the paragraph's text without its
\* leading warning: and the whitespace after it; what follows is kept as
\* it is, a second warning: included.
C15_WarningLeadingPrefixRemoved ==
    [][ HandlingWarning =>
          /\ Len(blocks') = Len(blocks) + 1
          /\ blocks'[Len(blocks')].type = "callout"
          /\ blocks'[Len(blocks')].variant = "warning"
          /\ IsRemainderOf(blocks'[Len(blocks')].text,
                           _node_to_text(fragment[pos]), WarningPrefix)
      ]_vars

C15_Witness ==
    /\ BlocksReturned /\ Len(fragment) = 1
    /\ fragment[1] = P(<<TextNode(<<"W", "A", "R", "N", "I", "N", "G", ":", "y">>)>>)
    /\ Len(blocks) = 1
    /\ blocks[1].type = "callout" /\ blocks[1].variant = "warning"
    /\ blocks[1].text = <<"y">>

(***************************************************************************)
(* html_to_blocks on fragments of lists                                    *)
(***************************************************************************)
Li(kids) == Element("li", kids)

Ul(kids) == Element("ul", kids)

Ol(kids) == Element("ol", kids)

T(c) == TextNode(<<c>>)

\* a list at depth 3: its text is the letter q, which no other node holds
Deep == Ul(<<Li(<<T("q")>>)>>)

\* the nodes a fragment of lists is built from
ListChoices ==
    { TextNode(<<"z">>),
      Ul(<<>>),
      Ol(<<Li(<<T("a")>>), Li(<<T(" ")>>)>>),
      Ul(<<T("s"), Li(<<T("a")>>), P(<<T("p")>>)>>),
      Ol(<<Li(<<T("a"), Ul(<<Li(<<T("b")>>), Li(<<T("c")>>)>>)>>)>>),
      Ul(<<Li(<<T("a"), Ul(<<Li(<<T("b")>>)>>), Ol(<<Li(<<T("c")>>)>>), T("d")>>)>>),
      Ul(<<Li(<<T("a"), Ul(<<Li(<<T("b"), Deep>>)>>)>>)>>),
      Ul(<<Li(<<Ul(<<Li(<<T("b"), Deep, Element("b", <<T("c")>>)>>)>>)>>)>>),
      Ul(<<Li(<<Ol(<<Li(<<Deep, Element("b", <<T("c")>>), T("d")>>)>>)>>)>>),
      Ul(<<Li(<<Ul(<<Li(<<Element("code", <<T("c")>>), T("d"),
                         Anchor(<<"u">>, <<T("e")>>)>>)>>)>>)>>) }

ListsInit ==
    /\ mode = "blocks"
    /\ fragment \in SeqsUpTo(ListChoices, MaxNodes)
    /\ pos = 0
    /\ blocks = <<>>
    /\ order = 1
    /\ IdleSplit /\ IdleSections /\ IdleSlug /\ IdleBuild

ListsSpec == ListsInit /\ [][BlocksNext]_vars

\* handle_element is about to run on a ul or ol element
HandlingList ==
    /\ mode = "blocks" /\ pos >= 1 /\ pos <= Len(fragment)
    /\ IsList(fragment[pos])

\* the members of seq at the positions of S, from position n on
RECURSIVE Picked(_, _, _)
Picked(seq, S, n) ==
    IF n > Len(seq) THEN <<>>
    ELSE (IF n \in S THEN <<seq[n]>> ELSE <<>>) \o Picked(seq, S, n + 1)

\* text and runs are those of a container of some of the children of li that
\* are not lists, in their order
BuiltFromInlineChildren(entry, li) ==
    \E S \in SUBSET {n \in 1..Len(li.kids) : ~IsList(li.kids[n])} :
        /\ entry.text = _node_to_text(Container(Picked(li.kids, S, 1)))
        /\ entry.runs = _inline_runs(Container(Picked(li.kids, S, 1)))

\* C17: the items of a top-level list are its direct li elements; an item's
\* children holds one List per ul/ol that is a direct child of its li, whose
\* items are the direct li elements of that nested list; a sub-item carries
\* no children, and its text and runs come from children of its li that are
\* not lists, so that a list at depth 3 adds neither structure nor text.
C17_OneLevelOfNestedLists ==
    [][ HandlingList =>
          LET el == fragment[pos]
              new == blocks'[Len(blocks')]
          IN  /\ Len(blocks') = Len(blocks) + 1
              /\ new.type = "list"
              /\ Len(new.items) = Len(DirectLi(el))
              /\ \A n \in 1..Len(new.items) :
                    LET li == DirectLi(el)[n]
                        nested == SelectSeq(li.kids, IsList)
                        item == new.items[n]
                    IN  /\ Len(item.children) = Len(nested)
                        /\ BuiltFromInlineChildren(item, li)
                        /\ \A m \in 1..Len(nested) :
                              LET child == item.children[m]
                                  lis == DirectLi(nested[m])
                              IN  /\ child.type = "list"
                                  /\ child.style = StyleOf(nested[m])
                                  /\ Len(child.items) = Len(lis)
                                  /\ \A j \in 1..Len(lis) :
                                        /\ DOMAIN child.items[j] = {"text", "runs"}
                                        /\ BuiltFromInlineChildren(child.items[j], lis[j])
                                        /\ ~Contains(child.items[j].text, <<"q">>)
      ]_vars

C17_Witness ==
    /\ BlocksReturned /\ Len(fragment) = 1 /\ Len(blocks) = 1
    /\ fragment[1] = Ul(<<Li(<<T("a"), Ul(<<Li(<<T("b"), Deep>>)>>)>>)>>)
    /\ blocks[1].type = "list" /\ Len(blocks[1].items) = 1
    /\ blocks[1].items[1].text = <<"a">>
    /\ Len(blocks[1].items[1].children) = 1
    /\ blocks[1].items[1].children[1].items = <<[text |-> <<"b">>,
                                                  runs |-> <<Run(<<"b">>, <<>>, FALSE)>>]>>

\* every run of the list has a text that is not empty
AllRunsHaveText(runs) == \A n \in 1..Len(runs) : runs[n].text # <<>>

\* C16: every run of every runs list of every emitted block (paragraph,
\* callout, list item, sub-item) has a non-empty text, also once the callout
\* prefix has been stripped from the first run.
C16_NoEmptyRun ==
    mode = "blocks" =>
        \A n \in 1..Len(blocks) :
            /\ AllRunsHaveText(blocks[n].runs)
            /\ \A m \in 1..Len(blocks[n].items) :
                  LET item == blocks[n].items[m]
                  IN  /\ AllRunsHaveText(item.runs)
                      /\ \A c \in 1..Len(item.children) :
                            \A j \in 1..Len(item.children[c].items) :
                                AllRunsHaveText(item.children[c].items[j].runs)

(***************************************************************************)
(* html_to_blocks on fragments of code blocks                              *)
(***************************************************************************)
Pre(kids) == Element("pre", kids)

\* the nodes a fragment of code blocks is built from
CodeChoices ==
    { TextNode(<<"z">>),
      Pre(<<>>),
      Pre(<<TextNode(<<"a", " ", " ", "b">>)>>),
      Pre(<<TextNode(<<"a", " ", "\n", "\n", "\n", "b", "\n", "\n">>)>>),
      Pre(<<Element("code", <<TextNode(<<"\n", "a", "\t", "\n">>)>>)>>),
      Pre(<<Element("span", <<T("a")>>), T("b")>>),
      Pre(<<Element("code", <<TextNode(<<"a", "\n">>)>>), TextNode(<<"\n">>)>>) }

CodeInit ==
    /\ mode = "blocks"
    /\ fragment \in SeqsUpTo(CodeChoices, MaxNodes)
    /\ pos = 0
    /\ blocks = <<>>
    /\ order = 1
    /\ IdleSplit /\ IdleSections /\ IdleSlug /\ IdleBuild

CodeSpec == CodeInit /\ [][BlocksNext]_vars

\* handle_element is about to run on a pre element
HandlingPre ==
    /\ mode = "blocks" /\ pos >= 1 /\ pos <= Len(fragment)
    /\ fragment[pos].name = "pre"

\* C18: the text of the Code block of a pre element is the element's text
\* content as it stands, nothing added between its text nodes, but for the
\* newlines at its end, which are trimmed.
C18_CodeTextVerbatim ==
    [][ HandlingPre =>
          /\ Len(blocks') = Len(blocks) + 1
          /\ blocks'[Len(blocks')].type = "code"
          /\ blocks'[Len(blocks')].text = RStripNewlines(get_text(fragment[pos]))
      ]_vars

(***************************************************************************)
(* build_split.main: build_core_files, build_resources, build_forms,       *)
(* finalize_meta, validate_outputs, summary                                *)
(*                                                                         *)
(* A file under OUT_ROOT is named by its directory and its stem.  The      *)
(* resources of this specification are small: split_if_large writes each   *)
(* of them whole.  The two meta files are kept as the list of paths they   *)
(* reference.                                                              *)
(***************************************************************************)
MaxResources == 2

MaxForms == 1

\* len(core_slugs), lines 303-315
NumCore == 11

\* the bytes of an endpoint of these collections up to its notes
SmallBody == 100

AlnumChars == {LowerCase[n] : n \in 1..26} \cup {DigitChar[n] : n \in 1..10}

\* the characters that names are built from
NameChars == {"A", "a", "b", "C", "F", " ", "-", "<", "&"}

\* s.replace("&", " and ")
RECURSIVE ReplaceAmp(_)
ReplaceAmp(s) ==
    IF s = <<>> THEN <<>>
    ELSE (IF Head(s) = "&" THEN <<" ", "a", "n", "d", " ">> ELSE <<Head(s)>>)
         \o ReplaceAmp(Tail(s))

\* s.strip("-")
RECURSIVE StripHyphens(_)
StripHyphens(s) ==
    IF s # <<>> /\ Head(s) = "-" THEN StripHyphens(Tail(s))
    ELSE IF s # <<>> /\ s[Len(s)] = "-" THEN StripHyphens(SubSeq(s, 1, Len(s) - 1))
    ELSE s

\* slugify(name), lines 14-19
slugify(name) ==
    StripHyphens(SubRuns(NameChars \ AlnumChars, <<"-">>,
                         ReplaceAmp(Lower(StripWs(name)))))

RawEndpoint(method, path, notes) == [method |-> method, path |-> path, notes |-> notes]

CollectionItem(name, eps) == [name |-> name, item |-> eps]

\* the items of the API v2 node
ResourceItems ==
    {CollectionItem(nm, eps) :
        nm \in {<<"A", " ", "b">>, <<"a", "-", "b">>, <<"C", "<">>},
        eps \in {<<>>,
                 <<RawEndpoint("GET", "/x", <<"x">>)>>,
                 <<RawEndpoint("", "/x", <<"x">>)>>,
                 <<RawEndpoint("GET", "/x", <<">">>)>>}}

\* the items of the Forms node
FormItems ==
    { CollectionItem(<<"F">>, <<RawEndpoint("POST", "/f", <<"x">>)>>),
      CollectionItem(<<"F">>, <<RawEndpoint("", "/f", <<"x">>)>>),
      CollectionItem(<<"a", "&", "b">>, <<RawEndpoint("POST", "", <<"x">>)>>),
      CollectionItem(<<"F", "<">>, <<RawEndpoint("", "/f", <<">">>)>>) }

FileKey(dir, name) == [dir |-> dir, name |-> name]

ManifestKey == FileKey("meta", <<"m", "a", "n", "i", "f", "e", "s", "t">>)

SearchIndexKey == FileKey("meta", <<"s", "e", "a", "r", "c", "h", "-", "i", "n", "d", "e", "x">>)

\* a file of OUT_ROOT/reference, a directory that main creates and leaves alone
StaleKey == FileKey("reference", <<"o", "l", "d">>)

CoreKeys == [n \in 1..NumCore |-> FileKey("core", DigitsOf(n))]

OutKeys ==
    {FileKey("resources", slugify(it.name)) : it \in ResourceItems}
    \cup {FileKey("forms", slugify(it.name)) : it \in FormItems}
    \cup {CoreKeys[n] : n \in 1..NumCore}
    \cup {ManifestKey, SearchIndexKey, StaleKey}

\* lines 408-413 and 452-457: the document of an item
DocOf(title, eps) ==
    [title |-> title, hasEndpoints |-> TRUE,
     endpoints |-> [n \in 1..Len(eps) |->
                       [id |-> n, name |-> <<"n">>, hasRest |-> TRUE,
                        body |-> SmallBody, method |-> eps[n].method,
                        path |-> eps[n].path, notes |-> eps[n].notes]],
     hasParts |-> FALSE, parts |-> <<>>]

\* lines 319-324: a core document
CoreDoc ==
    [title |-> <<"T">>, hasEndpoints |-> FALSE, endpoints |-> <<>>,
     hasParts |-> FALSE, parts |-> <<>>]

\* lines 362-369: the endpoints that build_resources keeps
KeptEndpoints(eps) == SelectSeq(eps, LAMBDA ep : ep.method # "" /\ ep.path # "")

\* lines 260-268: split_if_large writes the document whole
WrittenWhole(obj) == EndpointsOf(obj) = <<>> \/ Bytes(Serialize(obj)) <= KB_LIMIT

\* what finalize_meta writes to a meta file: the paths it references
MetaText(files) == <<Seg("meta", "", 0, 0, files)>>

\* what a file left in OUT_ROOT/reference may hold
StaleTexts ==
    { <<>>,
      Chars(<<"<", "b", ">">>),
      WriteJson(DocOf(<<"x">>, <<RawEndpoint("", "/x", <<"x">>)>>)) }

\* line 528: re.search(r"<[^>]+>", data)
HasTag(text) == StripTags(text) # text

\* a check that looks at the method alone
MissingMethodOnly(text) ==
    /\ ValidJson(text)
    /\ Parse(text).hasEndpoints
    /\ \E n \in 1..Len(Parse(text).endpoints) : Parse(text).endpoints[n].method = ""

\* lines 532-539: the file parses, is a dict with an endpoints list, and one
\* of its endpoints has no method or no path
MissingMethodOrPath(text) ==
    /\ ValidJson(text)
    /\ Parse(text).hasEndpoints
    /\ \E n \in 1..Len(Parse(text).endpoints) :
           Parse(text).endpoints[n].method = "" \/ Parse(text).endpoints[n].path = ""

NoExit == <<>>

BuildInit ==
    /\ mode = "build"
    /\ collection \in [resources : SeqsUpTo(ResourceItems, MaxResources),
                       forms : SeqsUpTo(FormItems, MaxForms)]
    /\ bpc = "core"
    /\ bidx = 0
    /\ \E stale \in StaleTexts :
           out = [key \in OutKeys |-> IF key = StaleKey THEN stale ELSE <<>>]
    /\ all_files = <<>>
    /\ writers = [key \in OutKeys |-> <<>>]
    /\ exit_msg = NoExit
    /\ printed = FALSE
    /\ IdleSplit /\ IdleBlocks /\ IdleSections /\ IdleSlug

\* line 554: build_core_files
BuildCore ==
    /\ mode = "build" /\ bpc = "core"
    /\ out' = [key \in OutKeys |->
                  IF key.dir = "core" THEN WriteJson(CoreDoc) ELSE out[key]]
    /\ all_files' = CoreKeys
    /\ bpc' = "resources"
    /\ bidx' = 1
    /\ UNCHANGED <<mode, collection, writers, exit_msg, printed,
                   splitVars, blockVars, sectionVars, slugVars>>

\* lines 356-417: one resource of the API v2 node
BuildResource ==
    /\ mode = "build" /\ bpc = "resources" /\ bidx <= Len(collection.resources)
    /\ LET res == collection.resources[bidx]
           obj == DocOf(res.name, KeptEndpoints(res.item))
           base_path == FileKey("resources", slugify(res.name))
       IN  /\ WrittenWhole(obj)
           /\ out' = [out EXCEPT ![base_path] = WriteJson(obj)]
           /\ all_files' = Append(all_files, base_path)
           /\ writers' = [writers EXCEPT ![base_path] = Append(@, <<"resource", bidx>>)]
    /\ bidx' = bidx + 1
    /\ UNCHANGED <<mode, collection, bpc, exit_msg, printed,
                   splitVars, blockVars, sectionVars, slugVars>>

\* line 418: build_resources returns
EndResources ==
    /\ mode = "build" /\ bpc = "resources" /\ bidx > Len(collection.resources)
    /\ bpc' = "forms"
    /\ bidx' = 1
    /\ UNCHANGED <<mode, collection, out, all_files, writers, exit_msg, printed,
                   splitVars, blockVars, sectionVars, slugVars>>

\* lines 426-460: one item of the Forms node
BuildForm ==
    /\ mode = "build" /\ bpc = "forms" /\ bidx <= Len(collection.forms)
    /\ LET form_item == collection.forms[bidx]
           obj == DocOf(form_item.name, form_item.item)
           path == FileKey("forms", slugify(form_item.name))
       IN  /\ out' = [out EXCEPT ![path] = WriteJson(obj)]
           /\ all_files' = Append(all_files, path)
           /\ writers' = [writers EXCEPT ![path] = Append(@, <<"form", bidx>>)]
    /\ bidx' = bidx + 1
    /\ UNCHANGED <<mode, collection, bpc, exit_msg, printed,
                   splitVars, blockVars, sectionVars, slugVars>>

\* line 462: build_forms returns
EndForms ==
    /\ mode = "build" /\ bpc = "forms" /\ bidx > Len(collection.forms)
    /\ bpc' = "meta"
    /\ UNCHANGED <<mode, collection, bidx, out, all_files, writers, exit_msg, printed,
                   splitVars, blockVars, sectionVars, slugVars>>

\* line 558: finalize_meta writes the manifest and the search index
FinalizeMeta ==
    /\ mode = "build" /\ bpc = "meta"
    /\ out' = [out EXCEPT ![ManifestKey] = MetaText(all_files),
                          ![SearchIndexKey] = MetaText(all_files)]
    /\ bpc' = "validate"
    /\ UNCHANGED <<mode, collection, bidx, all_files, writers, exit_msg, printed,
                   splitVars, blockVars, sectionVars, slugVars>>

\* lines 526-529: a file with a tag stops the run; rglob yields the files in
\* an order the program does not control
ValidateRawHtml ==
    /\ mode = "build" /\ bpc = "validate"
    /\ \E key \in OutKeys :
           /\ HasTag(out[key])
           /\ exit_msg' = [msg |-> "Raw HTML remains in", file |-> key]
    /\ bpc' = "aborted"
    /\ UNCHANGED <<mode, collection, bidx, out, all_files, writers, printed,
                   splitVars, blockVars, sectionVars, slugVars>>

\* lines 531-539: an endpoint without method or path stops the run
ValidateMissing ==
    /\ mode = "build" /\ bpc = "validate"
    /\ \A key \in OutKeys : ~HasTag(out[key])
    /\ \E key \in OutKeys :
           /\ MissingMethodOrPath(out[key])
           /\ exit_msg' = [msg |-> "Missing method/path in endpoint in", file |-> key]
    /\ bpc' = "aborted"
    /\ UNCHANGED <<mode, collection, bidx, out, all_files, writers, printed,
                   splitVars, blockVars, sectionVars, slugVars>>

\* lines 540-548, 559: validate_outputs returns; the files that the manifest
\* and the search index reference exist
ValidateReturns ==
    /\ mode = "build" /\ bpc = "validate"
    /\ \A key \in OutKeys : ~HasTag(out[key]) /\ ~MissingMethodOrPath(out[key])
    /\ \A n \in 1..Len(out[ManifestKey][1].names) : out[out[ManifestKey][1].names[n]] # <<>>
    /\ \A n \in 1..Len(out[SearchIndexKey][1].names) : out[out[SearchIndexKey][1].names[n]] # <<>>
    /\ bpc' = "summary"
    /\ UNCHANGED <<mode, collection, bidx, out, all_files, writers, exit_msg, printed,
                   splitVars, blockVars, sectionVars, slugVars>>

\* lines 561-562: the summary {"ok": true, ...}
PrintSummary ==
    /\ mode = "build" /\ bpc = "summary"
    /\ printed' = TRUE
    /\ bpc' = "done"
    /\ UNCHANGED <<mode, collection, bidx, out, all_files, writers, exit_msg,
                   splitVars, blockVars, sectionVars, slugVars>>

BuildNext ==
    \/ BuildCore \/ BuildResource \/ EndResources \/ BuildForm \/ EndForms
    \/ FinalizeMeta \/ ValidateRawHtml \/ ValidateMissing \/ ValidateReturns
    \/ PrintSummary

BuildSpec == BuildInit /\ [][BuildNext]_vars

\* the file is a JSON document with an endpoints list one of whose endpoints
\* has an empty method or an empty path
DocumentLacksMethodOrPath(key) ==
    /\ ValidJson(out[key])
    /\ LET doc == Parse(out[key])
       IN  /\ doc.hasEndpoints
           /\ \E n \in 1..Len(doc.endpoints) :
                  doc.endpoints[n].method = "" \/ doc.endpoints[n].path = ""

\* C19: validation is fatal and ordered: whenever a JSON document under
\* OUT_ROOT has an endpoint without method or path, validate_outputs ends
\* the run with a message that names an offending file, and main prints its
\* summary only once validate_outputs has returned without ending the run.
C19_ValidationFatalAndOrdered ==
    mode = "build" =>
        /\ printed => bpc = "done" /\ exit_msg = NoExit
        /\ bpc \in {"summary", "done"} =>
               \A key \in OutKeys : ~DocumentLacksMethodOrPath(key)
        /\ exit_msg # NoExit <=> bpc = "aborted"
        /\ bpc = "aborted" =>
               /\ ~printed
               /\ out[exit_msg.file] # <<>>
               /\ exit_msg.msg = "Missing method/path in endpoint in" =>
                      DocumentLacksMethodOrPath(exit_msg.file)
               /\ exit_msg.msg = "Raw HTML remains in" => HasTag(out[exit_msg.file])

C19_Witness ==
    /\ mode = "build" /\ bpc = "aborted" /\ ~printed
    /\ exit_msg # NoExit
    /\ exit_msg.msg = "Missing method/path in endpoint in"
    /\ exit_msg.file.dir = "forms"
    /\ DocumentLacksMethodOrPath(exit_msg.file)

\* C20: no file is written on behalf of two distinct input items: two
\* resources (or two forms) never map to the same output file.
C20_OneWriterPerFile ==
    mode = "build" => \A key \in OutKeys : Len(writers[key]) <= 1

(***************************************************************************)
(* The greedy scan of split_if_large                                       *)
(***************************************************************************)
\* the scan has ended and left at least one part
ScanEnded == mode = "split" /\ pc \in {"create", "update", "done", "raised"} /\ parts # <<>>

\* the candidate of an iteration: the current part plus the next endpoint
Candidate == Append(chunk, base_obj.endpoints[i])

\* C21: the split is greedy and maximal.  An iteration of the scan closes the
\* current part exactly when the candidate measures over KB_LIMIT and the
\* current part is not empty, and otherwise accepts the endpoint; every part
\* the scan leaves is non-empty, and each part extended by the first endpoint
\* of the next part measures over KB_LIMIT.
C21_GreedyAndMaximal ==
    /\ [][ScanStep =>
             IF size_of_eps(Candidate) > KB_LIMIT /\ chunk # <<>>
             THEN parts' = Append(parts, chunk) /\ chunk' = <<base_obj.endpoints[i]>>
             ELSE parts' = parts /\ chunk' = Candidate]_vars
    /\ [](ScanEnded =>
             /\ \A n \in 1..Len(parts) : parts[n] # <<>>
             /\ \A n \in 1..(Len(parts) - 1) :
                    size_of_eps(Append(parts[n], parts[n + 1][1])) > KB_LIMIT)

\* a part of two endpoints was closed because a third one did not fit
C21_Witness ==
    /\ ScanEnded /\ round = 1
    /\ Len(parts) = 2 /\ Len(parts[1]) = 2
    /\ size_of_eps(parts[1]) <= KB_LIMIT

(***************************************************************************)
(* Section boundaries                                                      *)
(***************************************************************************)
\* the h1 elements that are direct children of the document root
TopLevelH1(nodes) == SelectSeq(nodes, LAMBDA nd : nd.name = "h1")

\* C22: only the h1 elements that are direct children of the document root
\* start a section: the sections that stand for headings are those of the
\* top-level h1 elements, one each and in order, and an h1 nested inside
\* another element starts none.
C22_OnlyTopLevelH1StartsSection ==
    SectionsReturned =>
        /\ Len(h1_tags) = Len(TopLevelH1(root))
        /\ Len(sections) \in {Len(TopLevelH1(root)), Len(TopLevelH1(root)) + 1}
        /\ \A n \in 1..Len(h1_tags) :
               /\ Len(h1_tags[n]) = 1
               /\ sections[Len(sections) - Len(h1_tags) + n].title
                      = SectionTitle(TopLevelH1(root)[n])

(***************************************************************************)
(* Sections as a partition of the content                                  *)
(***************************************************************************)
\* the paths of all nodes below the nodes, in document order
RECURSIVE AllPaths(_, _)
AllPaths(nodes, prefix) ==
    Flatten([n \in 1..Len(nodes) |->
                <<prefix \o <<n>>>> \o AllPaths(nodes[n].kids, prefix \o <<n>>)])

ParentOf(path) == SubSeq(path, 1, Len(path) - 1)

IsPrefix(q, path) == Len(q) <= Len(path) /\ SubSeq(path, 1, Len(q)) = q

\* the non-h1 elements that are siblings of an h1, as paths
ContentPaths ==
    {q \in {AllPaths(root, <<>>)[n] : n \in 1..Len(AllPaths(root, <<>>))} :
        /\ ~IsString(NodeAt(root, q)) /\ NodeAt(root, q).name # "h1"
        /\ \E n \in 1..Len(h1_tags) : ParentOf(h1_tags[n]) = ParentOf(q)}

\* the positions from n on, up to the first h1 (not included), of the elements
RECURSIVE ElementPositionsUntilH1(_, _)
ElementPositionsUntilH1(nodes, n) ==
    IF n > Len(nodes) \/ nodes[n].name = "h1" THEN <<>>
    ELSE (IF IsString(nodes[n]) THEN <<>> ELSE <<n>>)
         \o ElementPositionsUntilH1(nodes, n + 1)

\* the paths of the elements a section is joined from: the Introduction from
\* the start of the root, the section of an h1 from the position after it
PartPaths(parent, from) ==
    LET siblings == IF parent = <<>> THEN root ELSE NodeAt(root, parent).kids
        at == ElementPositionsUntilH1(siblings, from)
    IN  [n \in 1..Len(at) |-> parent \o <<at[n]>>]

\* 1 when the first section is the Introduction, 0 otherwise
IntroOffset == Len(sections) - Len(h1_tags)

SectionPaths(n) ==
    IF n <= IntroOffset THEN PartPaths(<<>>, 1)
    ELSE LET hp == h1_tags[n - IntroOffset]
         IN  PartPaths(ParentOf(hp), hp[Len(hp)] + 1)

\* section n holds the element at path q, as a part or inside one
Holds(n, q) ==
    \E m \in 1..Len(SectionPaths(n)) : IsPrefix(SectionPaths(n)[m], q)

\* C23: the sections partition the content.  Every non-h1 element that is a
\* sibling of an h1 is a part of the html of exactly one section, the parts
\* of a section are in document order, and no such element is held by two
\* sections or by none.
C23_SectionsPartitionContent ==
    SectionsReturned =>
        /\ \A n \in 1..Len(sections) :
               sections[n].html =
                   [m \in 1..Len(SectionPaths(n)) |-> NodeAt(root, SectionPaths(n)[m])]
        /\ \A q \in ContentPaths :
               Cardinality({n \in 1..Len(sections) : Holds(n, q)}) = 1

\* the same, for documents whose h1 elements are all children of the root
PartitionWhenH1TopLevel ==
    (\A n \in 1..Len(h1_tags) : Len(h1_tags[n]) = 1) => C23_SectionsPartitionContent

(***************************************************************************)
(* Top-level elements and their blocks                                     *)
(***************************************************************************)
\* the block types that the claim allows for a top-level element, by name
BlockTypesOf(name) ==
    CASE name \in {"h2", "h3", "h4", "h5", "h6"} -> {"heading"}
      [] name = "p" -> {"paragraph", "callout"}
      [] name \in {"ul", "ol"} -> {"list"}
      [] name = "pre" -> {"code"}
      [] name = "blockquote" -> {"blockquote"}
      [] name = "table" -> {"table"}
      [] name = "hr" -> {"separator"}
      [] OTHER -> {}

\* the loop of html_to_blocks passes one top-level node
PassesChild == mode = "blocks" /\ pos >= 1 /\ pos' = pos + 1

\* C24: every top-level node adds at most one block, at the end of the list,
\* and the block has a type of the node's element kind; a top-level text
\* node and a top-level element other than h2-h6, p, ul, ol, pre, blockquote,
\* table and hr (an h1, a div that wraps a paragraph) add no block and leave
\* the order counter alone, whatever they contain.
C24_AtMostOneBlockPerTopLevelElement ==
    [][PassesChild =>
          LET child == fragment[pos]
          IN  /\ \/ blocks' = blocks /\ order' = order
                 \/ /\ Len(blocks') = Len(blocks) + 1
                    /\ SubSeq(blocks', 1, Len(blocks)) = blocks
                    /\ blocks'[Len(blocks')].type \in BlockTypesOf(child.name)
              /\ BlockTypesOf(child.name) = {} => blocks' = blocks /\ order' = order]_vars

\* a div that wraps a paragraph was passed between two elements that gave a
\* block each
C24_Witness ==
    /\ BlocksReturned /\ Len(fragment) = 3
    /\ fragment[1].name = "h2" /\ fragment[2].name = "div" /\ fragment[3].name = "p"
    /\ fragment[2].kids # <<>> /\ fragment[2].kids[1].name = "p"
    /\ Len(blocks) = 2 /\ blocks[1].type = "heading" /\ blocks[2].type = "paragraph"

(***************************************************************************)
(* Empty paragraphs and blockquotes                                        *)
(***************************************************************************)
\* the loop is at a p or blockquote element whose plain text is empty
AtEmptyTextElement ==
    /\ mode = "blocks" /\ pos >= 1 /\ pos <= Len(fragment)
    /\ fragment[pos].name \in {"p", "blockquote"}
    /\ _node_to_text(fragment[pos]) = <<>>

\* C25: no paragraph or blockquote block has empty text, and a p or
\* blockquote element whose plain text is empty adds no block and leaves the
\* order counter alone.
C25_NoEmptyParagraphOrBlockquote ==
    /\ [](mode = "blocks" =>
            \A n \in 1..Len(blocks) :
                blocks[n].type \in {"paragraph", "blockquote"} => blocks[n].text # <<>>)
    /\ [][(AtEmptyTextElement /\ pos' = pos + 1) =>
              (blocks' = blocks /\ order' = order)]_vars

\* an empty paragraph and an empty blockquote were passed, and the block
\* after them has order 1
C25_Witness ==
    /\ BlocksReturned /\ Len(fragment) = 3
    /\ fragment[1].name = "p" /\ _node_to_text(fragment[1]) = <<>>
    /\ fragment[2].name = "blockquote" /\ _node_to_text(fragment[2]) = <<>>
    /\ fragment[3].name = "blockquote"
    /\ Len(blocks) = 1 /\ blocks[1].type = "blockquote" /\ blocks[1].order = 1

(***************************************************************************)
(* html_to_blocks on one paragraph of inline nodes: the runs of anchors    *)
(***************************************************************************)
MaxInline == 3

\* the inline nodes a paragraph is built from: text, anchors with and without
\* visible text and href, and a span that holds an anchor and a text
InlineChoices ==
    { TextNode(<<"t">>),
      Anchor(<<" ", "u", " ">>, <<TextNode(<<" ", "x">>)>>),
      Anchor(<<"u">>, <<>>),
      Anchor(<<" ">>, <<TextNode(<<"y">>)>>),
      Anchor(<<>>, <<TextNode(<<" ">>)>>),
      Element("a", <<TextNode(<<"n">>)>>),
      Element("span", <<Anchor(<<"v">>, <<TextNode(<<"s">>)>>), TextNode(<<"w">>)>>) }

InlineInit ==
    /\ mode = "blocks"
    /\ \E kids \in SeqsUpTo(InlineChoices, MaxInline) :
           fragment = <<TextNode(<<"\n">>), P(kids)>>
    /\ pos = 0
    /\ blocks = <<>>
    /\ order = 1
    /\ IdleSplit /\ IdleSections /\ IdleSlug /\ IdleBuild

InlineSpec == InlineInit /\ [][BlocksNext]_vars

\* the runs that the claim lets an anchor contribute
AnchorRunsAllowed(a) ==
    LET visible == _collapse_ws(get_text_stripped(a))
        href == StripWs(a.attr)
    IN  IF href # <<>>
        THEN {<<Run(IF visible # <<>> THEN visible ELSE href, href, FALSE)>>}
        ELSE IF visible = <<>> THEN {<<>>}
        ELSE {<<>>, <<Run(visible, <<>>, FALSE)>>}

\* runs is a concatenation, in document order, of what the children of the
\* node contribute: an anchor what the claim allows, an inline container
\* what its own children contribute, any other child what _inline_runs
\* makes of it
RECURSIVE RunsInDocumentOrder(_, _)
RunsInDocumentOrder(node, runs) ==
    LET piece(n) == _inline_runs(Container(<<node.kids[n]>>))
    IN  /\ runs = Flatten([n \in 1..Len(node.kids) |-> piece(n)])
        /\ \A n \in 1..Len(node.kids) :
               LET child == node.kids[n]
               IN  IF IsString(child) THEN TRUE
                   ELSE IF child.name = "a" THEN piece(n) \in AnchorRunsAllowed(child)
                   ELSE IF child.name \in {"code", "kbd", "samp", "br"} THEN TRUE
                   ELSE RunsInDocumentOrder(child, piece(n))

\* C26: an anchor contributes at most one run; with a non-empty href the run
\* has the trimmed href as link and the visible text as text, or the href
\* when there is no visible text; with neither it contributes no run; the
\* runs of all children, those of inline containers included, are in
\* document order.
C26_AnchorRuns ==
    [][HandlingP =>
          \/ blocks' = blocks /\ _node_to_text(fragment[pos]) = <<>>
          \/ /\ Len(blocks') = Len(blocks) + 1
             /\ RunsInDocumentOrder(fragment[pos], blocks'[Len(blocks')].runs)]_vars

\* an anchor without visible text, an anchor with neither text nor href and
\* an anchor inside a span, between them one run each for the first and the
\* third
C26_Witness ==
    /\ BlocksReturned /\ Len(blocks) = 1
    /\ fragment[2].kids = << Anchor(<<"u">>, <<>>),
                             Anchor(<<>>, <<TextNode(<<" ">>)>>),
                             Element("span", <<Anchor(<<"v">>, <<TextNode(<<"s">>)>>),
                                               TextNode(<<"w">>)>>) >>
    /\ blocks[1].runs = << Run(<<"u">>, <<"u">>, FALSE),
                           Run(<<"s">>, <<"v">>, FALSE),
                           Run(<<"w">>, <<>>, FALSE) >>

(***************************************************************************)
(* html_to_blocks on fragments of tables                                   *)
(***************************************************************************)
Td(c) == Element("td", <<TextNode(<<c>>)>>)

Th(c) == Element("th", <<TextNode(<<c>>)>>)

Tr(cells) == Element("tr", cells)

Table(kids) == Element("table", kids)

\* the nodes a fragment of tables is built from: a table without rows, one
\* row, a row without cells, a thead, a tbody, a table nested in a cell
TableChoices ==
    { TextNode(<<"z">>),
      Table(<<>>),
      Table(<<Tr(<<Td("a")>>)>>),
      Table(<<Tr(<<>>), Tr(<<Td("a"), Td("b")>>)>>),
      Table(<<Element("thead", <<Tr(<<Th("h"), Th("g")>>)>>),
              Element("tbody", <<Tr(<<Td("a"), Td("b")>>), Tr(<<Td("c"), Td("d")>>)>>)>>),
      Table(<<Tr(<<Th("h")>>), Tr(<<Td("a")>>)>>),
      Table(<<Tr(<<Element("td", <<TextNode(<<"a">>),
                                    Table(<<Tr(<<Td("b")>>)>>)>>)>>)>>) }

TablesInit ==
    /\ mode = "blocks"
    /\ fragment \in SeqsUpTo(TableChoices, MaxNodes)
    /\ pos = 0
    /\ blocks = <<>>
    /\ order = 1
    /\ IdleSplit /\ IdleSections /\ IdleSlug /\ IdleBuild

TablesSpec == TablesInit /\ [][BlocksNext]_vars

\* handle_element is about to run on a table element
HandlingTable ==
    /\ mode = "blocks" /\ pos >= 1 /\ pos <= Len(fragment)
    /\ fragment[pos].name = "table"

\* the elements with one of the names that belong to the table itself: those
\* below it that are not inside a table nested in it
RECURSIVE OwnElements(_, _)
OwnElements(node, names) ==
    Flatten([n \in 1..Len(node.kids) |->
                (IF node.kids[n].name \in names THEN <<node.kids[n]>> ELSE <<>>)
                \o (IF node.kids[n].name = "table" THEN <<>>
                    ELSE OwnElements(node.kids[n], names))])

\* C27: the block of a table has one row per tr element of the table, in
\* document order, each row the texts of the cells of its tr, and its header
\* is the th texts of the table's thead, empty when it has none.
C27_OneRowPerTr ==
    [][HandlingTable =>
          LET el == fragment[pos]
              trs == OwnElements(el, {"tr"})
              theads == OwnElements(el, {"thead"})
              new == blocks'[Len(blocks')]
          IN  /\ Len(blocks') = Len(blocks) + 1
              /\ new.type = "table"
              /\ new.rows = [n \in 1..Len(trs) |-> TextsOf(OwnElements(trs[n], {"th", "td"}))]
              /\ new.header = IF theads = <<>> THEN <<>>
                              ELSE TextsOf(OwnElements(theads[1], {"th"}))]_vars

(***************************************************************************)
(* Sub-items of nested lists                                               *)
(***************************************************************************)
\* the children of the li other than nested lists, in document order
InlineChildren(li) == SelectSeq(li.kids, LAMBDA nd : ~IsList(nd))

\* C28: the text and the runs of every sub-item of a nested list are those
\* of all the children of its li other than nested lists, in document order,
\* none skipped.
C28_SubItemHasEveryInlineChild ==
    [][HandlingList =>
          LET el == fragment[pos]
              new == blocks'[Len(blocks')]
          IN  \A n \in 1..Len(DirectLi(el)) :
                  LET nested == SelectSeq(DirectLi(el)[n].kids, IsList)
                  IN  \A m \in 1..Len(nested) :
                          \A j \in 1..Len(DirectLi(nested[m])) :
                              LET sub_li == DirectLi(nested[m])[j]
                                  sub == new.items[n].children[m].items[j]
                              IN  /\ sub.text = _node_to_text(Container(InlineChildren(sub_li)))
                                  /\ sub.runs = _inline_runs(Container(InlineChildren(sub_li)))]_vars

(***************************************************************************)
(* split_if_large on documents whose endpoint names hold '<' and '>'       *)
(***************************************************************************)
\* the endpoints at position n: plain; notes that end with '<'; a name that
\* is '>'; a name that is '<' with notes that are '>'
NamedEndpointChoices(n) ==
    { Endpoint(n, <<"n">>, BodyHalf, <<"x">>),
      Endpoint(n, <<"n">>, BodyHalf - 1, <<"x", "<">>),
      Endpoint(n, <<">">>, BodyHalf, <<"x">>),
      Endpoint(n, <<"<">>, BodyHalf, <<">">>) }

NamedDocs ==
    {[title |-> t, hasEndpoints |-> TRUE, endpoints |-> eps,
      hasParts |-> FALSE, parts |-> <<>>] :
        t \in TitleChoices,
        eps \in UNION {{e \in [1..n -> UNION {NamedEndpointChoices(m) : m \in 1..n}] :
                           \A m \in 1..n : e[m].id = m} : n \in 0..MaxEndpoints}}

NamedSplitInit ==
    /\ mode = "split"
    /\ base_obj \in NamedDocs
    /\ pc = "call"
    /\ chunk = <<>> /\ parts = <<>> /\ i = 0 /\ filenames = <<>> /\ k = 0
    /\ disk = [f \in FileNames |-> <<>>]
    /\ ret = <<>>
    /\ round = 1
    /\ firstInput = EndpointsOf(base_obj)
    /\ firstSlices = <<>>
    /\ IdleBlocks /\ IdleSections /\ IdleSlug /\ IdleBuild

NamedSplitSpec == NamedSplitInit /\ [][SplitNext]_vars

(***************************************************************************)
(* The two phases of the part files                                        *)
(***************************************************************************)
\* the names of all the part files of the call, in part order
CompleteNames == [n \in 1..Len(parts) |-> PartName(n)]

\* the parts list that the text of a file holds
PartsOnDisk(f) == Parse(disk[f]).parts

\* the text with the given list as its parts list and nothing else changed
TextWithParts(text, names) ==
    [n \in 1..Len(text) |->
        IF text[n].k = "parts" THEN Seg("parts", "", 0, 0, names) ELSE text[n]]

\* what a parsed document holds apart from its parts list
WithoutParts(obj) == [obj EXCEPT !.parts = <<>>]

\* the rewrite of a part file leaves what json.loads reads from it, the parts
\* list aside, as it was
RewriteKeepsParsedDocument ==
    [][UpdatePart =>
          /\ ValidJson(disk'[filenames[k]])
          /\ WithoutParts(Parse(disk'[filenames[k]]))
                 = WithoutParts(Parse(disk[filenames[k]]))]_vars

\* C29: on the split path the part files are first all created, in part
\* order, with an empty parts list, and only when the last one exists is
\* each rewritten with the full list; at every state in between the parts
\* list of each part file written by the call is empty or the complete list
\* of names; the rewrite changes nothing in a file but its parts list.
C29_TwoPhasePartFiles ==
    /\ [][CreatePart =>
             /\ filenames = [n \in 1..(k - 1) |-> PartName(n)]
             /\ filenames' = Append(filenames, PartName(k))
             /\ \A n \in 1..Len(filenames') : Parse(disk'[filenames'[n]]).parts = <<>>
             /\ \A f \in FileNames \ {PartName(k)} : disk'[f] = disk[f]]_vars
    /\ [][UpdatePart =>
             /\ filenames = CompleteNames
             /\ \A n \in 1..Len(filenames) : disk[filenames[n]] # <<>>
             /\ \A n \in 1..(k - 1) : PartsOnDisk(filenames[n]) = CompleteNames
             /\ \A n \in k..Len(filenames) : PartsOnDisk(filenames[n]) = <<>>
             /\ disk'[filenames[k]] = TextWithParts(disk[filenames[k]], CompleteNames)
             /\ \A f \in FileNames \ {filenames[k]} : disk'[f] = disk[f]]_vars
    /\ []((mode = "split" /\ pc \in {"create", "update", "done", "raised"}) =>
             \A n \in 1..Len(filenames) :
                 PartsOnDisk(filenames[n]) \in {<<>>, CompleteNames})

(***************************************************************************)
(* Endpoints written by build_resources and build_forms                    *)
(***************************************************************************)
\* the file was written by build_resources or build_forms in this run
WrittenByRun(key) == writers[key] # <<>>

\* C30: every endpoint of every document with an endpoints list that
\* build_resources or build_forms wrote has a non-empty method and a
\* non-empty path, and validate_outputs never ends the run with "Missing
\* method/path" for a file that the run wrote.
C30_WrittenEndpointsHaveMethodAndPath ==
    mode = "build" =>
        /\ \A key \in OutKeys :
               (WrittenByRun(key) /\ ValidJson(out[key]) /\ Parse(out[key]).hasEndpoints) =>
                   \A n \in 1..Len(Parse(out[key]).endpoints) :
                       /\ Parse(out[key]).endpoints[n].method # ""
                       /\ Parse(out[key]).endpoints[n].path # ""
        /\ (exit_msg # NoExit /\ exit_msg.msg = "Missing method/path in endpoint in") =>
               ~WrittenByRun(exit_msg.file)
====
